---------------------------- MODULE Spec2Model ----------------------------
(***************************************************************************)
(* Fleet coordination control plane of the Artbot control hub: the hub's   *)
(* agent/robot registries, the command service and the connection manager  *)
(* (backend/app), together with the agent's connection loop                *)
(* (agent/artbot_agent/main.py) that talks to them over HTTP and over one  *)
(* WebSocket per connection generation.                                    *)
(***************************************************************************)
EXTENDS Integers, Sequences, FiniteSets, TLC

(* ------------------------------ bounds -------------------------------- *)
\* commands dispatched in one run (uuid4 values are drawn in order 1, 2, ..)
MaxCommands == 2
\* WebSocket handles ever accepted by the hub in one run
MaxHandles == 2
\* messages buffered in one direction of one WebSocket
MaxQueue == 1
\* clock readings, in minutes
MaxTime == 2
\* dispatch coroutines suspended in send_text at the same time
MaxTasks == 1
\* the same where dispatches run concurrently
MaxConcurrent == 2
\* undecodable messages put on the channel to the agent in one run
MaxUndecodable == 1
\* dashboard WebSockets ever accepted by the hub in one run
MaxDashboards == 2
\* broadcasts to the dashboard group started in one run
MaxBroadcasts == 3
\* clock readings of the health service, in minutes
MaxHealthTime == 6
\* the largest reading the score is compared at
MaxReading == 100

(* ------------------------- program constants -------------------------- *)
\* agent_registry.py: cutoff_time = utcnow() - timedelta(minutes=2)
AgentTimeoutMinutes == 2
\* core/config.py: max_command_history
max_command_history == 1000
\* agent main.py connect_websocket: max_retries = 5
max_retries == 5
\* agent main.py connect_websocket: retry_delay = 5, in seconds
InitialRetryDelay == 5
\* agent main.py run: asyncio.sleep(10) after connect_websocket failed
FailedConnectDelay == 10
\* agent main.py run: asyncio.sleep(5) at the end of the finally block
ReconnectDelay == 5

\* health_monitoring.py get_robot_health: timedelta(minutes=5)
StaleMinutes == 5

AgentIds == {"r1"}
Handles == 1..MaxHandles
\* the handles of dashboard WebSockets
DashHandles == (MaxHandles + 1)..(MaxHandles + MaxDashboards)
\* the connection_type of the dashboard group
DashboardGroup == "dashboard"
\* the caller of a broadcast nobody awaits
NoHandle == 0
CommandIds == 1..MaxCommands

\* actions sent through the REST layer: one of its own verbs
\* (routers/robots.py RobotCommand) and one of the agent's vocabulary
CommandActions == {"start", "status"}

\* the verbs of routers/robots.py RobotCommand and of
\* RobotManager.send_command_to_robot
HubVerbs == {"start", "stop", "restart", "reboot"}

\* the actions of routers/robots.py ExhibitionCommand
ExhibitionActions == {"start_all", "stop_all"}

\* the response payloads handed to handle_command_response: the hub's
\* vocabulary ("completed"; "failed" with an error), the agent's result
\* vocabulary (command_handler.py: "success", "error", with a message and
\* no error key), and a payload without a status key
Responses ==
    {[status |-> "completed", error |-> "none"],
     [status |-> "failed", error |-> "handler error"],
     [status |-> "success", error |-> "none"],
     [status |-> "error", error |-> "none"],
     [status |-> "absent", error |-> "none"]}

NoValue == "none"
NoTime == -1

\* ids that POST /api/agents/register: the agent of this model and a second
\* device that only registers
RegistrantIds == AgentIds \cup {"r2"}

\* the hostname and ip_address of an AgentRegistration body
AgentInfos ==
    {[hostname |-> "pi-a", ip_address |-> "10.0.0.1"],
     [hostname |-> "pi-b", ip_address |-> "10.0.0.2"]}

\* the body the agent process builds from its own configuration
OwnInfo(a) == [hostname |-> "pi-a", ip_address |-> "10.0.0.1"]

VARIABLES
    agents,              \* AgentRegistryService.agents
    robots,              \* RobotRegistryService.robots
    command_history,     \* CommandService.command_history
    pending_commands,    \* CommandService.pending_commands
    active_connections,  \* ConnectionManager.active_connections["agent:<id>"]
    sock,                \* per WebSocket handle: owner, link state, hub reader
    toAgent,             \* hub -> agent frames in flight, per handle
    toHub,               \* agent -> hub frames in flight, per handle
    tasks,               \* dispatch coroutines suspended in send_to_agent
    nextId,              \* next uuid4 value
    nextHandle,          \* next WebSocket handle
    now,                 \* datetime.utcnow(), in minutes
    proc,                \* the agent process: position in run, socket, flag,
                         \* retry state, background tasks, commands seen
    ret,                 \* what the last completed hub call returned
    dash,                \* per dashboard WebSocket: link, hub reader, received
    broadcasts,          \* coroutines suspended in broadcast_to_type
    nextBroadcast,       \* label of the next broadcast
    health_checks        \* HealthMonitoringService.health_checks

vars == <<agents, robots, command_history, pending_commands,
          active_connections, sock, toAgent, toHub, tasks, nextId,
          nextHandle, now, proc, ret, dash, broadcasts, nextBroadcast,
          health_checks>>

dashVars == <<dash, broadcasts, nextBroadcast>>

hubVars == <<agents, robots, command_history, pending_commands,
             active_connections>>

(* ------------------------------ helpers ------------------------------- *)
\* dict[k] = v
Put(f, k, v) == [x \in DOMAIN f \cup {k} |-> IF x = k THEN v ELSE f[x]]

\* del dict[k]
Del(f, k) == [x \in DOMAIN f \ {k} |-> f[x]]

\* list.remove(x): drops the first occurrence of x, if any
RECURSIVE Remove(_, _)
Remove(s, x) ==
    IF s = <<>> THEN <<>>
    ELSE IF Head(s) = x THEN Tail(s)
    ELSE <<Head(s)>> \o Remove(Tail(s), x)

InSeq(s, x) == \E i \in 1..Len(s) : s[i] = x

NoRet == [op |-> NoValue, ok |-> TRUE, id |-> NoValue, command_id |-> 0,
          status |-> NoValue, error |-> NoValue, data |-> NoValue]

(* ----------------------------- registries ----------------------------- *)
\* AgentRegistryService.register_agent
AgentRegistry_register_agent(ag, a, info, t) ==
    Put(ag, a, [hostname |-> info.hostname, ip_address |-> info.ip_address,
                status |-> "online", last_seen |-> t])

\* AgentRegistryService.update_agent_heartbeat; the second component is the
\* return value
AgentRegistry_update_agent_heartbeat(ag, a, t) ==
    IF a \notin DOMAIN ag THEN <<ag, FALSE>>
    ELSE <<[ag EXCEPT ![a].last_seen = t, ![a].status = "online"], TRUE>>

\* AgentRegistryService.remove_agent
AgentRegistry_remove_agent(ag, a) ==
    IF a \in DOMAIN ag THEN <<Del(ag, a), TRUE>> ELSE <<ag, FALSE>>

\* the liveness check of AgentRegistryService.get_online_agents
IsLive(ag, a, t) == ag[a].last_seen > t - AgentTimeoutMinutes

\* a register_robot that leaves a robot that is already there alone
RobotRegistry_register_robot_KeepsExisting(rb, r, info, t) ==
    IF r \in DOMAIN rb THEN rb
    ELSE Put(rb, r, [hostname |-> info.hostname,
                     ip_address |-> info.ip_address,
                     status |-> "online", current_action |-> "idle",
                     workspace_running |-> FALSE, metrics_at |-> NoTime,
                     last_update |-> t])

\* RobotRegistryService.register_robot.  metrics_at is bookkeeping of the
\* model: the timestamp carried by the telemetry update that last wrote the
\* robot's metrics (the code keeps no such field on the heartbeat path)
RobotRegistry_register_robot(rb, r, info, t) ==
    Put(rb, r, [hostname |-> info.hostname, ip_address |-> info.ip_address,
                status |-> "online", current_action |-> "idle",
                workspace_running |-> FALSE, metrics_at |-> NoTime,
                last_update |-> t])

\* a set_robot_status that writes the action argument even when none is
\* given
RobotRegistry_set_robot_status_ResetsAction(rb, r, status, action, t) ==
    IF r \notin DOMAIN rb THEN rb
    ELSE [rb EXCEPT ![r].status = status,
                    ![r].current_action = action,
                    ![r].last_update = t]

\* RobotRegistryService.set_robot_status
RobotRegistry_set_robot_status(rb, r, status, action, t) ==
    IF r \notin DOMAIN rb THEN rb
    ELSE [rb EXCEPT ![r].status = status,
                    ![r].current_action =
                        IF action # NoValue THEN action ELSE @,
                    ![r].last_update = t]

\* RobotManager.update_agent_heartbeat builds robot_update from the
\* heartbeat's keys; RobotRegistryService.update_robot_status merges it
HeartbeatRobotUpdate(rb, r, data, t) ==
    IF r \notin DOMAIN rb THEN rb
    ELSE [rb EXCEPT ![r].current_action =
                        IF data.workspace_running THEN "person_following"
                        ELSE "idle",
                    ![r].workspace_running = data.workspace_running,
                    ![r].metrics_at = data.timestamp,
                    ![r].last_update = t]

\* RobotRegistryService.update_robot_status with the raw metrics of a
\* robot_status frame: robot.update(status_data) merges its keys; no status
\* or current_action key is among them, workspace_running is
StatusRobotUpdate(rb, r, data, t) ==
    IF r \notin DOMAIN rb THEN rb
    ELSE [rb EXCEPT ![r].workspace_running = data.workspace_running,
                    ![r].metrics_at = data.timestamp,
                    ![r].last_update = t]

\* RobotManager.register_agent
RobotManager_register_agent(a, info) ==
    /\ agents' = AgentRegistry_register_agent(agents, a, info, now)
    /\ robots' = RobotRegistry_register_robot(robots, a, info, now)

\* RobotManager.update_agent_heartbeat
RobotManager_update_agent_heartbeat(a, data) ==
    LET upd == AgentRegistry_update_agent_heartbeat(agents, a, now)
    IN /\ agents' = upd[1]
       /\ robots' = IF upd[2] THEN HeartbeatRobotUpdate(robots, a, data, now)
                    ELSE robots

\* a removal that cascades to deleting the robot
RobotManager_remove_agent_DeletesRobot(a) ==
    LET rem == AgentRegistry_remove_agent(agents, a)
    IN /\ agents' = rem[1]
       /\ robots' = IF rem[2] /\ a \in DOMAIN robots THEN Del(robots, a)
                    ELSE robots

\* RobotManager.remove_agent
RobotManager_remove_agent(a) ==
    LET rem == AgentRegistry_remove_agent(agents, a)
    IN /\ agents' = rem[1]
       /\ robots' = IF rem[2]
                    THEN RobotRegistry_set_robot_status(robots, a, "offline",
                                                        NoValue, now)
                    ELSE robots


(* --------------------------- health service --------------------------- *)
\* a key the dict does not have
NoMetric == -1

\* the metric values a heartbeat body carries, each either a reading or
\* absent
BatteryLevels == {NoMetric, 10, 15, 60}
Temperatures == {NoMetric, 40, 60, 70, 75}
CpuPercents == {NoMetric, 95}
MemoryPercents == {NoMetric, 50}

\* scores are kept as integers: ScoreScale times the float of the code,
\* which is exact for integer readings
ScoreScale == 200

\* max(0, x)
Max0(x) == IF x > 0 THEN x ELSE 0

\* health_data.get(key, 0)
GetOr0(v) == IF v = NoMetric THEN 0 ELSE v

\* HealthMonitoringService._calculate_health_score, times ScoreScale:
\* battery_score * 0.3 + cpu_score * 0.2 + memory_score * 0.2
\* + temp_score * 0.15 + latency_score * 0.15
CalculateHealthScore(e) ==
    LET battery == e.battery_level
        battery_score60 ==
            IF battery > 50 THEN 100 * 60
            ELSE IF battery > 20 THEN 50 * 60 + (battery - 20) * 100
            ELSE battery * 150
        cpu_score == Max0(100 - e.cpu_usage)
        memory_score == Max0(100 - e.memory_usage)
        temp == e.temperature
        temp_score ==
            IF temp < 50 THEN 100
            ELSE IF temp < 70 THEN 100 - (temp - 50) * 2
            ELSE Max0(60 - (temp - 70) * 3)
        latency == e.network_latency
        latency_score30 ==
            IF latency < 50 THEN 100 * 30
            ELSE IF latency < 200 THEN 100 * 30 - (latency - 50) * 15
            ELSE Max0(25 * 30 - (latency - 200) * 3)
    IN battery_score60 + cpu_score * 40 + memory_score * 40
       + temp_score * 30 + latency_score30

\* HealthMonitoringService._determine_health_status
DetermineHealthStatus(score) ==
    IF score >= 80 * ScoreScale THEN "healthy"
    ELSE IF score >= 60 * ScoreScale THEN "good"
    ELSE IF score >= 40 * ScoreScale THEN "warning"
    ELSE IF score >= 20 * ScoreScale THEN "poor"
    ELSE "critical"

\* the health_entry of update_robot_health before its score and status
\* are set (disk_usage, errors_count and uptime enter neither)
HealthEntry(data, t) ==
    [timestamp |-> t,
     battery_level |-> GetOr0(data.battery_level),
     cpu_usage |-> GetOr0(data.cpu_usage),
     memory_usage |-> GetOr0(data.memory_usage),
     temperature |-> GetOr0(data.temperature),
     network_latency |-> 0]

\* HealthMonitoringService.update_robot_health
UpdateRobotHealth(hc, r, data, t) ==
    LET e == HealthEntry(data, t)
        score == CalculateHealthScore(e)
    IN Put(hc, r, [timestamp |-> e.timestamp,
                   battery_level |-> e.battery_level,
                   cpu_usage |-> e.cpu_usage,
                   memory_usage |-> e.memory_usage,
                   temperature |-> e.temperature,
                   network_latency |-> e.network_latency,
                   health_score |-> score,
                   status |-> DetermineHealthStatus(score)])

\* the staleness test of get_robot_health
IsStale(e, t) == t - e.timestamp > StaleMinutes

\* a get_robot_health that hands the stored entry back as it is
GetRobotHealthOp_NoStaleness(hc, r, t) == hc

\* HealthMonitoringService.get_robot_health: the stored dict is marked
\* stale in place and handed back; the result is health_checks after the
\* call, of which [r] is what the call returned
GetRobotHealthOp(hc, r, t) ==
    IF r \in DOMAIN hc /\ IsStale(hc[r], t)
    THEN [hc EXCEPT ![r].status = "stale", ![r].health_score = 0]
    ELSE hc

\* a get_critical_alerts that reads the battery alert off the stored
\* status and has no temperature alert
AlertsOf_FromStatus(r, e) ==
    (IF e.status \in {"critical", "poor"} THEN {<<r, "critical_battery">>}
     ELSE {})
    \cup (IF e.cpu_usage > 90 THEN {<<r, "high_cpu">>} ELSE {})
    \cup (IF e.status = "stale" THEN {<<r, "stale_data">>} ELSE {})

\* the alerts get_critical_alerts appends for robot r whose current
\* health is e, as (robot_id, type) pairs
AlertsOf(r, e) ==
    (IF e.battery_level < 15 THEN {<<r, "critical_battery">>} ELSE {})
    \cup (IF e.temperature > 70 THEN {<<r, "high_temperature">>} ELSE {})
    \cup (IF e.cpu_usage > 90 THEN {<<r, "high_cpu">>} ELSE {})
    \cup (IF e.status = "stale" THEN {<<r, "stale_data">>} ELSE {})

\* the robot_update RobotManager.update_agent_heartbeat builds from a
\* heartbeat body: cpu_percent and memory_percent are renamed
RobotUpdateOf(data) ==
    [battery_level |-> data.battery_level, temperature |-> data.temperature,
     cpu_usage |-> data.cpu_percent, memory_usage |-> data.memory_percent]

\* any(key in status_data for key in ['battery_level', 'cpu_usage',
\* 'memory_usage', 'temperature'])
HasHealthData(upd) ==
    \/ upd.battery_level # NoMetric
    \/ upd.cpu_usage # NoMetric
    \/ upd.memory_usage # NoMetric
    \/ upd.temperature # NoMetric

(* --------------------------- command service -------------------------- *)
NoResponse == [status |-> NoValue, error |-> NoValue]

\* command_data of CommandService.send_command_to_robot (parameters and
\* timestamp are not kept); completed_at, response and error are the keys
\* _update_command_status adds later
NewCommand(cid, r, action) ==
    [command_id |-> cid, robot_id |-> r, type |-> "robot_command",
     action |-> action, status |-> "pending",
     completed_at |-> NoTime, response |-> NoResponse, error |-> NoValue]

\* the for loop of _update_command_status: the first record of the list
\* with this command_id is updated, then break
UpdateFirst(list, cid, status, resp, err, t) ==
    LET hits == {i \in 1..Len(list) : list[i].command_id = cid}
    IN IF hits = {} THEN list
       ELSE LET first == CHOOSE i \in hits : \A j \in hits : i <= j
            IN [list EXCEPT ![first] =
                   [@ EXCEPT
                       !.status = status,
                       !.completed_at = t,
                       !.response = IF resp # NoResponse THEN resp ELSE @,
                       !.error = IF err # NoValue THEN err ELSE @]]

\* CommandService._update_command_status on (command_history,
\* pending_commands); returns the pair after the call
UpdateCommandStatus(hist, pend, cid, status, resp, err, t) ==
    IF cid \notin DOMAIN pend THEN <<hist, pend>>
    ELSE LET r == pend[cid].robot_id
         IN << IF r \in DOMAIN hist
               THEN [hist EXCEPT
                       ![r] = UpdateFirst(@, cid, status, resp, err, t)]
               ELSE hist,
               [pend EXCEPT ![cid].status = status,
                            ![cid].error = IF err # NoValue THEN err ELSE @] >>

\* CommandService.handle_command_response on (command_history,
\* pending_commands)
HandleCommandResponseOp(hist, pend, cid, resp, t) ==
    IF cid \notin DOMAIN pend THEN <<hist, pend>>
    ELSE LET status == IF resp.status = "absent" THEN "completed"
                       ELSE resp.status
             upd == UpdateCommandStatus(hist, pend, cid, status, resp,
                                        resp.error, t)
         IN IF status \in {"completed", "failed"}
            THEN <<upd[1], Del(upd[2], cid)>>
            ELSE upd

\* CommandService.cancel_command; the third component is the return value
CancelCommandOp(hist, pend, cid, t) ==
    IF cid \in DOMAIN pend
    THEN LET upd == UpdateCommandStatus(hist, pend, cid, "cancelled",
                                        NoResponse, NoValue, t)
         IN <<upd[1], Del(upd[2], cid), TRUE>>
    ELSE <<hist, pend, FALSE>>

\* a failure branch that raises without recording the failure
SendFailedOp_NotRecorded(hist, pend, cid, t) == <<hist, pend>>

\* the failure branch of CommandService.send_command_to_robot
\* (if not success: ...)
SendFailedOp(hist, pend, cid, t) ==
    UpdateCommandStatus(hist, pend, cid, "failed", NoResponse,
                        "WebSocket send failed", t)

\* RobotManager.send_command_to_robot: the status and current action a
\* dispatched action sets; <<>> when the action sets none
IntentStatus(action) ==
    CASE action = "start" -> <<"active", "person_following">>
      [] action = "stop" -> <<"idle", "stopped">>
      [] action = "restart" -> <<"restarting", "system_restart">>
      [] action = "reboot" -> <<"rebooting", "system_reboot">>
      [] OTHER -> <<>>

\* an acknowledgment-driven hub: dispatch leaves the robot's status alone
ApplyIntent_OnAcknowledgment(rb, r, action, t) == rb

\* RobotManager.send_command_to_robot, lines 207-215
ApplyIntent(rb, r, action, t) ==
    IF IntentStatus(action) = <<>> THEN rb
    ELSE RobotRegistry_set_robot_status(rb, r, IntentStatus(action)[1],
                                        IntentStatus(action)[2], t)

(* -------------------------- the agent's state ------------------------- *)
\* ArtbotAgent.__init__ and the locals of run and connect_websocket when
\* the process starts.  pc is the position in run, ws is self.websocket
\* (0 for None), running is self.running, attempt and retry_delay are the
\* locals of connect_websocket, background_tasks the connections whose
\* background tasks are not cancelled.  Bookkeeping of the model: backoff
\* (the sleeps of the current call of connect_websocket), paused (the
\* sleeps of run since the loop last left its try block), registrations
\* (calls of register_with_hub in this run), signalled (signal_handler ran
\* in this run), skipped (undecodable messages met) and handled (the
\* commands seen, kept across runs)
NewProcess(seen) ==
    [pc |-> "registering", ws |-> 0, running |-> FALSE, attempt |-> 0,
     retry_delay |-> InitialRetryDelay, background_tasks |-> {},
     backoff |-> <<>>, paused |-> <<>>, registrations |-> 0,
     signalled |-> FALSE, skipped |-> 0, handled |-> seen]

\* connect_websocket, its first two lines: the attempt counter and the
\* delay start afresh in every call
StartConnecting(p) ==
    [p EXCEPT !.pc = "connecting", !.attempt = 0,
              !.retry_delay = InitialRetryDelay, !.backoff = <<>>]

Teardown_KeepsChannel(p) ==
    [p EXCEPT !.pc = "disconnected", !.background_tasks = {}, !.paused = <<>>]

Teardown_KeepsTasks(p) ==
    [p EXCEPT !.pc = "disconnected", !.ws = 0, !.paused = <<>>]

\* run, finally block: task.cancel() for each of background_tasks, the
\* socket closed and self.websocket = None
Teardown(p) ==
    [p EXCEPT !.pc = "disconnected", !.background_tasks = {}, !.ws = 0,
              !.paused = <<>>]

SleepBeforeReconnect_GivesUp(p) == [p EXCEPT !.pc = "stopped"]

\* run, end of the finally block with self.running set: asyncio.sleep(5)
SleepBeforeReconnect(p) ==
    [p EXCEPT !.pc = "looptop", !.paused = Append(@, ReconnectDelay)]

(* ------------------------------ transport ----------------------------- *)
Disconnect_KeepsHandle(conns, a, h) == conns

\* ConnectionManager.disconnect(websocket, "agent:<a>")
Disconnect(conns, a, h) == [conns EXCEPT ![a] = Remove(@, h)]

\* the envelope json.dumps(command_data) puts on the wire
Envelope(cmd) ==
    [type |-> cmd.type, command_id |-> cmd.command_id, action |-> cmd.action,
     status |-> cmd.status]

\* CommandHandler.handle_command: the result statuses the agent can return
\* for an envelope.  The hub's own verbs are no case of handle_robot_command
\* and get its else branch; the handlers of known actions return "success"
\* or, from their except branches, "error".
AgentResults(env) ==
    IF env.type = "robot_command"
    THEN IF env.action \in {"start_workspace", "stop_workspace",
                            "restart_create3", "reboot_create3", "status",
                            "get_logs"}
         THEN {"success", "error"}
         ELSE {"error"}
    ELSE IF env.type = "system_command"
         THEN IF env.action \in {"reboot", "update", "logs"}
              THEN {"success", "error"}
              ELSE {"error"}
         ELSE {"error"}

\* CommandHandler.handle_command, handle_robot_command and
\* handle_system_command: the handler an envelope is routed to, which is
\* the one named by its action when the type has a case for that action
Route(env) ==
    IF env.type = "robot_command"
    THEN IF env.action \in {"start_workspace", "stop_workspace",
                            "restart_create3", "reboot_create3", "status",
                            "get_logs"}
         THEN env.action
         ELSE "Unknown robot action"
    ELSE IF env.type = "system_command"
         THEN IF env.action \in {"reboot", "update", "logs"}
              THEN env.action
              ELSE "Unknown system action"
         ELSE "Unknown command type"

\* the message of the else branches of the three routing methods
UnknownMessages ==
    {"Unknown robot action", "Unknown system action", "Unknown command type"}

\* the message key of the dict handle_command returns, as far as routing
\* decides it
Message(env) ==
    IF Route(env) \in UnknownMessages THEN Route(env) ELSE NoValue

\* the frame ArtbotAgent.handle_websocket_messages sends back: the dict
\* handle_command returned, which has neither a type nor a command_id key.
\* in_reply_to records which command the agent was answering; it is not part
\* of the payload and no hub action reads it.
Answer(env, result) ==
    [type |-> NoValue, command_id |-> 0, status |-> result,
     message |-> Message(env), workspace_running |-> FALSE,
     timestamp |-> NoTime, in_reply_to |-> env.command_id]

\* the frame ArtbotAgent.send_websocket_message builds around the metrics
\* of get_essential_metrics, stamped ts
Frame(type, wr, ts) ==
    [type |-> type, command_id |-> 0, status |-> NoValue,
     message |-> NoValue, workspace_running |-> wr, timestamp |-> ts,
     in_reply_to |-> 0]

(* -------------------------------- Init -------------------------------- *)
Init ==
    /\ agents = <<>>
    /\ robots = <<>>
    /\ command_history = <<>>
    /\ pending_commands = <<>>
    /\ active_connections = [k \in AgentIds \cup {DashboardGroup} |-> <<>>]
    /\ sock = [h \in Handles |-> [agent |-> NoValue, up |-> FALSE,
                                  reader |-> "none"]]
    /\ toAgent = [h \in Handles |-> <<>>]
    /\ toHub = [h \in Handles |-> <<>>]
    /\ tasks = {}
    /\ nextId = 1
    /\ nextHandle = 1
    /\ now = 0
    /\ proc = [a \in AgentIds |-> NewProcess({})]
    /\ ret = NoRet
    /\ dash = [d \in DashHandles |-> [up |-> FALSE, reader |-> "none",
                                      received |-> <<>>]]
    /\ broadcasts = {}
    /\ nextBroadcast = 1
    /\ health_checks = <<>>

(* ------------------------- hub: command dispatch ---------------------- *)
\* what send_robot_command answers: HTTP 200 with the command_id of the
\* command_data it was handed, or an HTTPException
Returned(r, cmd) ==
    [op |-> "send_command", ok |-> TRUE, id |-> r,
     command_id |-> cmd.command_id, status |-> cmd.status,
     error |-> cmd.error, data |-> NoValue]

Raised(r, cid, why) ==
    [op |-> "send_command", ok |-> FALSE, id |-> r, command_id |-> cid,
     status |-> "failed", error |-> why, data |-> NoValue]

\* send_to_agent returned False: CommandService.send_command_to_robot marks
\* the command failed and raises; RobotManager logs and re-raises; the route
\* answers HTTP 500
DispatchFailed(r, cid) ==
    LET upd == SendFailedOp(command_history, pending_commands, cid, now)
    IN /\ command_history' = upd[1]
       /\ pending_commands' = upd[2]
       /\ ret' = Raised(r, cid, "Failed to send command")
       /\ UNCHANGED <<agents, robots, toAgent, nextHandle, dashVars, now,
                      health_checks, proc, sock, toHub>>

\* routers/robots.py send_robot_command, rejected before any command exists
SendRobotCommandRejected(r) ==
    /\ \/ /\ r \notin DOMAIN robots
          /\ ret' = Raised(r, 0, "not found")
       \/ /\ r \in DOMAIN robots
          /\ robots[r].status # "online"
          /\ ret' = Raised(r, 0, "not online")
    /\ UNCHANGED <<hubVars, sock, toAgent, toHub, tasks, nextId, nextHandle,
                   dashVars, now, health_checks, proc>>

\* a uuid4 that comes out the same for every command
NextCommandId_Repeats(id) == id

\* str(uuid.uuid4()): the value after id; no value is drawn twice
NextCommandId(id) == id + 1

\* routers/robots.py send_robot_command -> RobotManager.send_command_to_robot
\* -> CommandService.send_command_to_robot, up to the first send_text of
\* ConnectionManager.send_to_agent (or through to the end when the group
\* "agent:<r>" is absent or empty and nothing is awaited); cap bounds the
\* number of commands of the run, concurrent the dispatches suspended at
\* the same time
Dispatch(r, action, cap, concurrent) ==
    /\ nextId <= cap
    /\ Cardinality(tasks) < concurrent
    /\ r \in DOMAIN robots
    /\ robots[r].status = "online"
    /\ LET cid == nextId
           cmd == NewCommand(cid, r, action)
           hist == Put(command_history, r,
                       Append(IF r \in DOMAIN command_history
                              THEN command_history[r] ELSE <<>>, cmd))
           pend == Put(pending_commands, cid, cmd)
           conns == IF r \in DOMAIN active_connections
                    THEN active_connections[r] ELSE <<>>
       IN /\ nextId' = NextCommandId(cid)
          /\ IF conns = <<>>
             THEN LET upd == SendFailedOp(hist, pend, cid, now)
                  IN /\ command_history' = upd[1]
                     /\ pending_commands' = upd[2]
                     /\ ret' = Raised(r, cid, "Failed to send command")
                     /\ tasks' = tasks
             ELSE /\ command_history' = hist
                  /\ pending_commands' = pend
                  /\ tasks' = tasks \cup {[command_data |-> cmd,
                                           connections |-> conns]}
                  /\ ret' = NoRet
    /\ UNCHANGED <<agents, robots, active_connections, sock, toAgent, toHub,
                   nextHandle, dashVars, now, health_checks, proc>>

SendRobotCommandUpTo(r, action, cap) == Dispatch(r, action, cap, MaxTasks)

SendRobotCommand(r, action) == SendRobotCommandUpTo(r, action, MaxCommands)

\* routers/robots.py exhibition_command: start_all -> start, stop_all ->
\* stop
ExhibitionVerb(cmd) == IF cmd = "start_all" THEN "start" ELSE "stop"

\* routers/robots.py exhibition_command: every robot of the registry is
\* skipped, its status not being "online"
ExhibitionCommandSkips(cmd) ==
    /\ \A r \in DOMAIN robots : robots[r].status # "online"
    /\ ret' = [op |-> "exhibition_command", ok |-> TRUE, id |-> NoValue,
               command_id |-> 0, status |-> NoValue, error |-> NoValue,
               data |-> [total_robots |-> Cardinality(DOMAIN robots),
                         processed |-> 0]]
    /\ UNCHANGED <<hubVars, sock, toAgent, toHub, tasks, nextId, nextHandle,
                   dashVars, now, health_checks, proc>>

\* routers/robots.py exhibition_command with one robot in the registry,
\* which is online: the turn of the for loop that dispatches to it
ExhibitionCommandDispatches(cmd) ==
    \E r \in DOMAIN robots :
       /\ DOMAIN robots = {r}
       /\ Dispatch(r, ExhibitionVerb(cmd), MaxCommands, MaxTasks)

\* one iteration of the for loop of ConnectionManager.send_to_agent whose
\* send_text succeeds: return True; the command becomes "sent", the robot
\* takes the commanded status and command_data goes back to the caller
SendToAgentWritten(task) ==
    LET h == Head(task.connections)
        cmd == task.command_data
        r == cmd.robot_id
        upd == UpdateCommandStatus(command_history, pending_commands,
                                   cmd.command_id, "sent", NoResponse,
                                   NoValue, now)
    IN /\ sock[h].up
       /\ Len(toAgent[h]) < MaxQueue
       /\ toAgent' = [toAgent EXCEPT ![h] = Append(@, Envelope(cmd))]
       /\ command_history' = upd[1]
       /\ pending_commands' = upd[2]
       /\ robots' = ApplyIntent(robots, r, cmd.action, now)
       /\ ret' = Returned(r, cmd)
       /\ tasks' = tasks \ {task}
       /\ UNCHANGED <<agents, active_connections, sock, toHub, nextId,
                      nextHandle, dashVars, now, health_checks,
                      proc>>

\* one iteration whose send_text raises: the handle is dropped from the
\* group and the loop goes on; after the last handle send_to_agent returns
\* False
SendToAgentRaised(task) ==
    LET h == Head(task.connections)
        cmd == task.command_data
        r == cmd.robot_id
        rest == Tail(task.connections)
    IN /\ ~sock[h].up
       /\ active_connections' = Disconnect(active_connections, r, h)
       /\ IF rest = <<>>
          THEN /\ tasks' = tasks \ {task}
               /\ DispatchFailed(r, cmd.command_id)
          ELSE /\ tasks' = (tasks \ {task})
                           \cup {[task EXCEPT !.connections = rest]}
               /\ UNCHANGED <<agents, robots, command_history,
                              pending_commands, sock,
                              toAgent, toHub, nextHandle,
                              dashVars, now, health_checks,
                              proc>>
               /\ ret' = NoRet
       /\ nextId' = nextId

(* ------------------- command service: resolve and cancel -------------- *)
\* the ids a caller can hold: those of dispatches that have returned or
\* raised, and ids the service never issued
Callable(cid) == \A t \in tasks : t.command_data.command_id # cid

\* CommandService.handle_command_response
HandleCommandResponse(cid, resp) ==
    /\ Callable(cid)
    /\ LET upd == HandleCommandResponseOp(command_history, pending_commands,
                                          cid, resp, now)
       IN /\ command_history' = upd[1]
          /\ pending_commands' = upd[2]
    /\ UNCHANGED <<agents, robots, active_connections, sock, toAgent, toHub,
                   tasks, nextId, nextHandle, dashVars, now,
                   health_checks, proc>>
    /\ ret' = NoRet

\* CommandService.cancel_command
CancelCommand(cid) ==
    /\ Callable(cid)
    /\ LET upd == CancelCommandOp(command_history, pending_commands, cid, now)
       IN /\ command_history' = upd[1]
          /\ pending_commands' = upd[2]
          /\ ret' = [op |-> "cancel_command", ok |-> upd[3], id |-> NoValue,
                     command_id |-> cid, status |-> NoValue,
                     error |-> NoValue, data |-> NoValue]
    /\ UNCHANGED <<agents, robots, active_connections, sock, toAgent, toHub,
                   tasks, nextId, nextHandle, dashVars, now,
                   health_checks, proc>>

(* -------------------- hub: the dashboard group ------------------------ *)
\* ConnectionManager.broadcast_to_type at its start: the copy of the group
\* and the position of the for loop in it; caller is the handle whose
\* reader awaits the broadcast, NoHandle for a task nobody awaits
Broadcast(id, caller) ==
    [id |-> id, caller |-> caller,
     connections |-> active_connections[DashboardGroup], i |-> 1]

\* RobotManager.update_agent_heartbeat reaches update_robot_status and the
\* robot is there
HeartbeatUpdatesRobot(a) == a \in DOMAIN agents /\ a \in DOMAIN robots

\* the broadcasts one message starts: asyncio.create_task of
\* RobotManager.update_robot_status (detached) and the await of
\* handle_agent_message (awaited, by the reader of handle h).  With an empty
\* group the for loop has no turn and no coroutine is ever suspended; the
\* copy of the group a created task takes in its first step is taken here
StartBroadcasts(detached, awaited, h) ==
    LET n == (IF detached THEN 1 ELSE 0) + (IF awaited THEN 1 ELSE 0)
        first == nextBroadcast
    IN IF active_connections[DashboardGroup] = <<>> \/ n = 0
       THEN UNCHANGED <<broadcasts, nextBroadcast>>
       ELSE /\ first + n - 1 <= MaxBroadcasts
            /\ nextBroadcast' = first + n
            /\ broadcasts' =
                  broadcasts
                  \cup (IF detached THEN {Broadcast(first, NoHandle)}
                        ELSE {})
                  \cup (IF awaited
                        THEN {Broadcast(first + (IF detached THEN 1 ELSE 0),
                                        h)}
                        ELSE {})

AfterRaise_Aborts(b) == [b EXCEPT !.i = Len(b.connections) + 1]

\* the for loop of broadcast_to_type after its except branch: on to the
\* next connection of the copy
AfterRaise(b) == [b EXCEPT !.i = @ + 1]

\* the coroutine of b goes on as c: suspended at the next send_text, or,
\* past the last connection, returned to the reader that awaited it
Continue(b, c) ==
    IF c.i > Len(c.connections)
    THEN /\ broadcasts' = broadcasts \ {b}
         /\ sock' = IF b.caller = NoHandle THEN sock
                    ELSE [sock EXCEPT ![b.caller].reader = "reading"]
    ELSE /\ broadcasts' = (broadcasts \ {b}) \cup {c}
         /\ sock' = sock

\* one iteration of the for loop of broadcast_to_type whose send_text
\* succeeds
BroadcastWritten(b) ==
    LET d == b.connections[b.i]
    IN /\ dash[d].up
       /\ dash' = [dash EXCEPT ![d].received = Append(@, b.id)]
       /\ Continue(b, [b EXCEPT !.i = @ + 1])
       /\ UNCHANGED <<hubVars, toAgent, toHub, tasks, nextId, nextHandle, now,
                      health_checks, proc, nextBroadcast>>
       /\ ret' = NoRet

\* one iteration whose send_text raises: the handle is dropped from the
\* group
BroadcastRaised(b) ==
    LET d == b.connections[b.i]
    IN /\ ~dash[d].up
       /\ active_connections' =
             Disconnect(active_connections, DashboardGroup, d)
       /\ Continue(b, AfterRaise(b))
       /\ UNCHANGED <<agents, robots, command_history, pending_commands,
                      toAgent, toHub, tasks, nextId, nextHandle,
                      now, health_checks, proc, dash,
                      nextBroadcast>>
       /\ ret' = NoRet

\* websocket_dashboard: ConnectionManager.connect and the receive loop
DashboardConnects(d) ==
    /\ dash[d].reader = "none"
    /\ dash' = [dash EXCEPT ![d].up = TRUE, ![d].reader = "reading"]
    /\ active_connections' =
          [active_connections EXCEPT ![DashboardGroup] = Append(@, d)]
    /\ UNCHANGED <<agents, robots, command_history, pending_commands, sock,
                   toAgent, toHub, tasks, nextId, nextHandle, now,
                   health_checks, proc, broadcasts, nextBroadcast>>
    /\ ret' = NoRet

\* the dashboard's socket dies
DashboardLost(d) ==
    /\ dash[d].up
    /\ dash' = [dash EXCEPT ![d].up = FALSE]
    /\ UNCHANGED <<hubVars, sock, toAgent, toHub, tasks, nextId, nextHandle,
                   now, health_checks, proc, broadcasts,
                   nextBroadcast>>
    /\ ret' = NoRet

\* websocket_dashboard, except WebSocketDisconnect
DashboardReaderDisconnect(d) ==
    /\ dash[d].reader = "reading"
    /\ ~dash[d].up
    /\ active_connections' =
          Disconnect(active_connections, DashboardGroup, d)
    /\ dash' = [dash EXCEPT ![d].reader = "done"]
    /\ UNCHANGED <<agents, robots, command_history, pending_commands, sock,
                   toAgent, toHub, tasks, nextId, nextHandle, now,
                   health_checks, proc, broadcasts, nextBroadcast>>
    /\ ret' = NoRet

(* --------------------- hub: the reader of an agent -------------------- *)
\* ConnectionManager.handle_agent_message, called by websocket_agent for
\* the frame it received.  Only the heartbeat and robot_status branches
\* touch the registries; the command_response branch and the else branch
\* leave the command service alone.
HandleAgentMessage(a, msg) ==
    IF msg.type = "heartbeat"
    THEN RobotManager_update_agent_heartbeat(a, msg)
    ELSE IF msg.type = "robot_status"
         THEN /\ robots' = StatusRobotUpdate(robots, a, msg, now)
              /\ agents' = agents
         ELSE UNCHANGED <<agents, robots>>

\* the message types whose branch of handle_agent_message awaits a
\* broadcast to the dashboard group
AwaitedTypes == {"robot_status", "log_entry", "command_response"}

\* RobotManager.update_robot_status found the robot for agent a's frame
\* msg, and created the task that broadcasts the update
UpdateBroadcast(a, msg) ==
    \/ msg.type = "heartbeat" /\ HeartbeatUpdatesRobot(a)
    \/ msg.type = "robot_status" /\ a \in DOMAIN robots

\* one turn of the while loop of websocket_agent: receive_text, json.loads,
\* handle_agent_message, up to the first send_text of a broadcast it awaits
\* (or through to the end when the dashboard group is empty and nothing is
\* awaited).  The frame is kept without its metrics keys, so the health
\* store, which only the health routes read, is not written here: the
\* readings and the store they feed are those of HeartbeatPosted
HubReceive(h) ==
    LET a == sock[h].agent
        msg == Head(toHub[h])
        awaited == msg.type \in AwaitedTypes
    IN /\ sock[h].reader = "reading"
       /\ sock[h].up
       /\ toHub[h] # <<>>
       /\ HandleAgentMessage(a, msg)
       /\ toHub' = [toHub EXCEPT ![h] = Tail(@)]
       /\ StartBroadcasts(UpdateBroadcast(a, msg), awaited, h)
       /\ sock' = IF awaited /\ active_connections[DashboardGroup] # <<>>
                  THEN [sock EXCEPT ![h].reader = "broadcasting"]
                  ELSE sock
       /\ UNCHANGED <<command_history, pending_commands, active_connections,
                      toAgent, tasks, nextId, nextHandle, now,
                      health_checks, proc, dash>>
       /\ ret' = NoRet

\* websocket_agent, except WebSocketDisconnect: the handle leaves its group
\* and the agent is removed
HubReaderDisconnect(h) ==
    /\ sock[h].reader = "reading"
    /\ ~sock[h].up
    /\ active_connections' = Disconnect(active_connections, sock[h].agent, h)
    /\ RobotManager_remove_agent(sock[h].agent)
    /\ sock' = [sock EXCEPT ![h].reader = "done"]
    /\ UNCHANGED <<command_history, pending_commands, toAgent, toHub, tasks,
                   nextId, nextHandle, dashVars, now, health_checks,
                   proc>>
    /\ ret' = NoRet

\* websocket_agent, except Exception: receive_text, json.loads or
\* handle_agent_message raised (a frame that is not a JSON object, sent by
\* whatever peer holds the socket): the handle leaves its group, the agent is
\* not removed; the endpoint returns and the server closes the socket
HubReaderError(h) ==
    /\ sock[h].reader = "reading"
    /\ sock[h].up
    /\ active_connections' = Disconnect(active_connections, sock[h].agent, h)
    /\ sock' = [sock EXCEPT ![h].reader = "done", ![h].up = FALSE]
    /\ toAgent' = [toAgent EXCEPT ![h] = <<>>]
    /\ toHub' = [toHub EXCEPT ![h] = <<>>]
    /\ UNCHANGED <<agents, robots, command_history, pending_commands, tasks,
                   nextId, nextHandle, dashVars, now, health_checks,
                   proc>>
    /\ ret' = NoRet

(* ------------------------- hub: REST reads and admin ------------------ *)
\* routers/robots.py get_robot -> RobotRegistryService.get_robot: the stored
\* dict is the answer
GetRobot(r) ==
    /\ ret' = IF r \in DOMAIN robots
              THEN [op |-> "get_robot", ok |-> TRUE, id |-> r,
                    command_id |-> 0, status |-> robots[r].status,
                    error |-> NoValue, data |-> robots[r]]
              ELSE [op |-> "get_robot", ok |-> FALSE, id |-> r,
                    command_id |-> 0, status |-> NoValue,
                    error |-> "not found", data |-> NoValue]
    /\ UNCHANGED <<hubVars, sock, toAgent, toHub, tasks, nextId, nextHandle,
                   dashVars, now, health_checks, proc>>

\* the online total both listing routes compute: the agents whose stored
\* status is "online"
OnlineTotal(ag) == Cardinality({a \in DOMAIN ag : ag[a].status = "online"})

\* routers/agents.py get_all_agents (GET /api/agents/)
GetAllAgents ==
    /\ ret' = [op |-> "get_all_agents", ok |-> TRUE, id |-> NoValue,
               command_id |-> 0, status |-> NoValue, error |-> NoValue,
               data |-> [agents |-> agents,
                         total |-> Cardinality(DOMAIN agents),
                         online |-> OnlineTotal(agents)]]
    /\ UNCHANGED <<hubVars, sock, toAgent, toHub, tasks, nextId, nextHandle,
                   dashVars, now, health_checks, proc>>

\* routers/system.py system_status (GET /api/system/status): its agents part
SystemStatus ==
    /\ ret' = [op |-> "system_status", ok |-> TRUE, id |-> NoValue,
               command_id |-> 0, status |-> "running", error |-> NoValue,
               data |-> [total |-> Cardinality(DOMAIN agents),
                         online |-> OnlineTotal(agents)]]
    /\ UNCHANGED <<hubVars, sock, toAgent, toHub, tasks, nextId, nextHandle,
                   dashVars, now, health_checks, proc>>

\* routers/agents.py remove_agent (DELETE /api/agents/<a>)
AdminRemoveAgent(a) ==
    /\ a \in DOMAIN agents
    /\ RobotManager_remove_agent(a)
    /\ UNCHANGED <<command_history, pending_commands, active_connections,
                   sock, toAgent, toHub, tasks, nextId, nextHandle,
                   dashVars, now, health_checks, proc>>
    /\ ret' = NoRet

\* routers/agents.py register_agent (POST /api/agents/register) called with
\* any body: a device that rejoins under its id, or another device
RegisterAgent(a, info) ==
    /\ RobotManager_register_agent(a, info)
    /\ ret' = [op |-> "register_agent", ok |-> TRUE, id |-> a,
               command_id |-> 0, status |-> "registered", error |-> NoValue,
               data |-> info]
    /\ UNCHANGED <<command_history, pending_commands, active_connections,
                   sock, toAgent, toHub, tasks, nextId, nextHandle,
                   dashVars, now, health_checks, proc>>

\* the clock, read up to cap
TickUpTo(cap) ==
    /\ now < cap
    /\ now' = now + 1
    /\ UNCHANGED <<hubVars, sock, toAgent, toHub, tasks, nextId, nextHandle,
                   dashVars, proc, health_checks>>
    /\ ret' = NoRet

Tick == TickUpTo(MaxTime)

(* ------------------------ hub: health monitoring ---------------------- *)
\* the bodies of POST /api/agents/<a>/heartbeat that carry metrics
HeartbeatBodies ==
    [battery_level : BatteryLevels, temperature : Temperatures,
     cpu_percent : CpuPercents, memory_percent : MemoryPercents]

\* routers/agents.py agent_heartbeat with a body of metrics ->
\* RobotManager.update_agent_heartbeat -> RobotManager.update_robot_status
\* -> RobotRegistryService.update_robot_status and, for health data,
\* HealthMonitoringService.update_robot_health, then the task that
\* broadcasts the update
HeartbeatPosted(a, data) ==
    LET upd == AgentRegistry_update_agent_heartbeat(agents, a, now)
        robot_update == RobotUpdateOf(data)
        success == upd[2] /\ HasHealthData(robot_update)
                   /\ a \in DOMAIN robots
    IN /\ agents' = upd[1]
       /\ robots' = IF success THEN [robots EXCEPT ![a].last_update = now]
                    ELSE robots
       /\ health_checks' =
             IF success
             THEN UpdateRobotHealth(health_checks, a, robot_update, now)
             ELSE health_checks
       /\ StartBroadcasts(success, FALSE, NoHandle)
       /\ UNCHANGED <<command_history, pending_commands, active_connections,
                      sock, toAgent, toHub, tasks, nextId, nextHandle, now,
                      proc, dash>>
       /\ ret' = NoRet

\* routers/robots.py get_robot_health -> RobotManager.get_robot_health ->
\* HealthMonitoringService.get_robot_health
GetRobotHealth(r) ==
    LET hc == GetRobotHealthOp(health_checks, r, now)
    IN /\ health_checks' = hc
       /\ ret' = IF r \notin DOMAIN robots
                 THEN [op |-> "get_robot_health", ok |-> FALSE, id |-> r,
                       command_id |-> 0, status |-> NoValue,
                       error |-> "not found", data |-> NoValue]
                 ELSE IF r \in DOMAIN hc
                 THEN [op |-> "get_robot_health", ok |-> TRUE, id |-> r,
                       command_id |-> 0, status |-> hc[r].status,
                       error |-> NoValue, data |-> hc[r]]
                 ELSE [op |-> "get_robot_health", ok |-> TRUE, id |-> r,
                       command_id |-> 0, status |-> "unknown",
                       error |-> NoValue, data |-> [health_score |-> 0]]
       /\ UNCHANGED <<hubVars, sock, toAgent, toHub, tasks, nextId,
                      nextHandle, dashVars, now, proc>>

\* the for loop of get_critical_alerts calls get_robot_health for every
\* robot of health_checks
AllRead(hc, t) == [r \in DOMAIN hc |-> GetRobotHealthOp(hc, r, t)[r]]

\* RobotManager.get_critical_alerts ->
\* HealthMonitoringService.get_critical_alerts
GetCriticalAlerts ==
    LET hc == AllRead(health_checks, now)
    IN /\ health_checks' = hc
       /\ ret' = [op |-> "get_critical_alerts", ok |-> TRUE, id |-> NoValue,
                  command_id |-> 0, status |-> NoValue, error |-> NoValue,
                  data |-> UNION {AlertsOf(r, hc[r]) : r \in DOMAIN hc}]
       /\ UNCHANGED <<hubVars, sock, toAgent, toHub, tasks, nextId,
                      nextHandle, dashVars, now, proc>>

(* --------------------------- the agent process ------------------------ *)
\* ArtbotAgent.run: register_with_hub answered 200; routers/agents.py
\* register_agent has run on the hub
AgentRegistered(a) ==
    /\ proc[a].pc = "registering"
    /\ RobotManager_register_agent(a, OwnInfo(a))
    /\ proc' = [proc EXCEPT
                  ![a] = StartConnecting([@ EXCEPT !.running = TRUE,
                                                   !.registrations = @ + 1])]
    /\ UNCHANGED <<command_history, pending_commands, active_connections,
                   sock, toAgent, toHub, tasks, nextId, nextHandle,
                   dashVars, now, health_checks>>
    /\ ret' = NoRet

AfterFailedRegistration_Retries(p) == [p EXCEPT !.registrations = @ + 1]

\* run after register_with_hub returned False: logger.error and return
AfterFailedRegistration(p) ==
    [p EXCEPT !.pc = "stopped", !.registrations = @ + 1]

\* ArtbotAgent.run: register_with_hub returned False; run returns
AgentRegistrationFailed(a) ==
    /\ proc[a].pc = "registering"
    /\ proc' = [proc EXCEPT ![a] = AfterFailedRegistration(@)]
    /\ UNCHANGED <<hubVars, sock, toAgent, toHub, tasks, nextId, nextHandle,
                   dashVars, now, health_checks>>
    /\ ret' = NoRet

\* the process is started again (the supervisor of the device)
AgentRestarted(a) ==
    /\ proc[a].pc = "stopped"
    /\ proc' = [proc EXCEPT ![a] = NewProcess(@.handled)]
    /\ UNCHANGED <<hubVars, sock, toAgent, toHub, tasks, nextId, nextHandle,
                   dashVars, now, health_checks>>
    /\ ret' = NoRet

\* ArtbotAgent.connect_websocket succeeded; on the hub websocket_agent ran
\* ConnectionManager.connect and entered its loop; start_background_tasks
AgentConnected(a) ==
    /\ proc[a].pc = "connecting"
    /\ nextHandle <= MaxHandles
    /\ LET h == nextHandle
       IN /\ sock' = [sock EXCEPT ![h] = [agent |-> a, up |-> TRUE,
                                          reader |-> "reading"]]
          /\ active_connections' =
                 [active_connections EXCEPT ![a] = Append(@, h)]
          /\ proc' = [proc EXCEPT ![a].pc = "connected", ![a].ws = h,
                                  ![a].background_tasks = @ \cup {h}]
          /\ nextHandle' = h + 1
    /\ UNCHANGED <<agents, robots, command_history, pending_commands, toAgent,
                   toHub, tasks, nextId, now, health_checks, dashVars>>
    /\ ret' = NoRet

\* websocket_heartbeat_loop / websocket_status_loop: send_websocket_message
\* of metrics stamped ts
AgentEmitsAt(a, type, wr, ts) ==
    /\ proc[a].background_tasks # {}
    /\ proc[a].running
    /\ proc[a].ws # 0
    /\ sock[proc[a].ws].up
    /\ Len(toHub[proc[a].ws]) < MaxQueue
    /\ toHub' = [toHub EXCEPT ![proc[a].ws] =
                                 Append(@, Frame(type, wr, ts))]
    /\ UNCHANGED <<hubVars, sock, toAgent, tasks, nextId, nextHandle,
                   dashVars, now, health_checks, proc>>
    /\ ret' = NoRet

\* the same with the stamp left out: no code of the hub reads it
AgentEmits(a, type, wr) == AgentEmitsAt(a, type, wr, NoTime)

\* HeartbeatManager.send_heartbeat: POST /api/agents/<a>/heartbeat, served
\* by routers/agents.py agent_heartbeat
AgentHttpHeartbeatAt(a, wr, ts) ==
    /\ proc[a].background_tasks # {}
    /\ RobotManager_update_agent_heartbeat(a, Frame("heartbeat", wr, ts))
    /\ StartBroadcasts(HeartbeatUpdatesRobot(a), FALSE, NoHandle)
    /\ UNCHANGED <<command_history, pending_commands, active_connections,
                   sock, toAgent, toHub, tasks, nextId, nextHandle,
                   now, health_checks, proc, dash>>
    /\ ret' = NoRet

AgentHttpHeartbeat(a, wr) == AgentHttpHeartbeatAt(a, wr, NoTime)

\* json.loads of handle_websocket_messages accepts the message
Decodable(env) == env.type # "undecodable"

\* one turn of the async for of handle_websocket_messages: the envelope is
\* handled and the result sent back on the same socket
AgentHandlesCommand(a, result) ==
    LET h == proc[a].ws
    IN /\ proc[a].pc = "connected"
       /\ sock[h].up
       /\ toAgent[h] # <<>>
       /\ Decodable(Head(toAgent[h]))
       /\ Len(toHub[h]) < MaxQueue
       /\ result \in AgentResults(Head(toAgent[h]))
       /\ toAgent' = [toAgent EXCEPT ![h] = Tail(@)]
       /\ toHub' = [toHub EXCEPT ![h] = Append(@, Answer(Head(toAgent[h]),
                                                         result))]
       /\ proc' = [proc EXCEPT ![a].handled =
                                   @ \cup {Head(toAgent[h]).command_id}]
       /\ UNCHANGED <<hubVars, sock, tasks, nextId, nextHandle, dashVars, now,
                      health_checks>>
       /\ ret' = NoRet

\* the link of a socket fails, or its peer closes it; frames in flight are
\* lost
ConnectionLost(h) ==
    /\ sock[h].up
    /\ sock' = [sock EXCEPT ![h].up = FALSE]
    /\ toAgent' = [toAgent EXCEPT ![h] = <<>>]
    /\ toHub' = [toHub EXCEPT ![h] = <<>>]
    /\ UNCHANGED <<hubVars, tasks, nextId, nextHandle, dashVars, now,
                   health_checks, proc>>
    /\ ret' = NoRet

\* handle_websocket_messages returns on ConnectionClosed; the finally block
\* of run cancels the background tasks, drops the socket and, after the
\* 5 s sleep, the loop connects again (it does not register again)
AgentReconnects(a) ==
    /\ proc[a].pc = "connected"
    /\ ~sock[proc[a].ws].up
    /\ proc[a].running
    /\ proc' = [proc EXCEPT
                  ![a] = StartConnecting(SleepBeforeReconnect(Teardown(@)))]
    /\ UNCHANGED <<hubVars, sock, toAgent, toHub, tasks, nextId, nextHandle,
                   dashVars, now, health_checks>>
    /\ ret' = NoRet

(* -------------------- the agent process, step by step ----------------- *)
\* the delay of connect_websocket after a failed attempt: retry_delay *= 2
NextDelay_Fixed(d) == d

NextDelay(d) == d * 2

\* signal_handler: SIGINT or SIGTERM
SignalReceived(a) ==
    /\ proc[a].pc # "stopped"
    /\ ~proc[a].signalled
    /\ proc' = [proc EXCEPT ![a].running = FALSE, ![a].signalled = TRUE]
    /\ UNCHANGED <<hubVars, sock, toAgent, toHub, tasks, nextId, nextHandle,
                   dashVars, now, health_checks>>
    /\ ret' = NoRet

\* connect_websocket: websockets.connect raised.  Before the last attempt
\* the loop sleeps retry_delay and doubles it; after the last one
\* connect_websocket returns False, run sleeps 10 s and its continue
\* passes through the finally block
AttemptFails(a) ==
    /\ proc[a].pc = "connecting"
    /\ proc' =
         [proc EXCEPT
            ![a] = IF @.attempt < max_retries - 1
                   THEN [@ EXCEPT !.attempt = @ + 1,
                                  !.backoff = Append(@, proc[a].retry_delay),
                                  !.retry_delay = NextDelay(@)]
                   ELSE [Teardown(@) EXCEPT
                            !.attempt = proc[a].attempt + 1,
                            !.paused = <<FailedConnectDelay>>]]
    /\ UNCHANGED <<hubVars, sock, toAgent, toHub, tasks, nextId, nextHandle,
                   dashVars, now, health_checks>>
    /\ ret' = NoRet

\* handle_websocket_messages returns: the async for ended because the
\* connection is closed; the finally block of run cancels the background
\* tasks and drops the socket
InboundLoopEnds(a) ==
    /\ proc[a].pc = "connected"
    /\ ~sock[proc[a].ws].up
    /\ proc' = [proc EXCEPT ![a] = Teardown(@)]
    /\ UNCHANGED <<hubVars, sock, toAgent, toHub, tasks, nextId, nextHandle,
                   dashVars, now, health_checks>>
    /\ ret' = NoRet

\* run, end of the finally block: if self.running, asyncio.sleep(5)
LoopAgain(a) ==
    /\ proc[a].pc = "disconnected"
    /\ proc[a].running
    /\ proc' = [proc EXCEPT ![a] = SleepBeforeReconnect(@)]
    /\ UNCHANGED <<hubVars, sock, toAgent, toHub, tasks, nextId, nextHandle,
                   dashVars, now, health_checks>>
    /\ ret' = NoRet

\* run, while self.running: the flag is set and connect_websocket is called
LoopTop(a) ==
    /\ proc[a].pc = "looptop"
    /\ proc[a].running
    /\ proc' = [proc EXCEPT ![a] = StartConnecting(@)]
    /\ UNCHANGED <<hubVars, sock, toAgent, toHub, tasks, nextId, nextHandle,
                   dashVars, now, health_checks>>
    /\ ret' = NoRet

\* run, while self.running: the flag is cleared, the loop ends and run
\* returns
LoopExits(a) ==
    /\ proc[a].pc \in {"disconnected", "looptop"}
    /\ ~proc[a].running
    /\ proc' = [proc EXCEPT ![a].pc = "stopped"]
    /\ UNCHANGED <<hubVars, sock, toAgent, toHub, tasks, nextId, nextHandle,
                   dashVars, now, health_checks>>
    /\ ret' = NoRet

\* a message that is no JSON reaches the agent's socket (the hub sends
\* none; whatever peer or proxy holds the connection can)
UndecodableArrives(h) ==
    /\ sock[h].up
    /\ Len(toAgent[h]) < MaxQueue
    /\ \A a \in AgentIds : proc[a].skipped < MaxUndecodable
    /\ \A g \in Handles : \A i \in 1..Len(toAgent[g]) :
          Decodable(toAgent[g][i])
    /\ toAgent' = [toAgent EXCEPT
                     ![h] = Append(@, [type |-> "undecodable",
                                       command_id |-> 0, action |-> NoValue,
                                       status |-> NoValue])]
    /\ UNCHANGED <<hubVars, sock, toHub, tasks, nextId, nextHandle, dashVars,
                   now, health_checks, proc>>
    /\ ret' = NoRet

AfterUndecodable_EndsLoop(p) == Teardown(p)

\* handle_websocket_messages, except json.JSONDecodeError: logger.error and
\* on to the next turn of the async for
AfterUndecodable(p) == [p EXCEPT !.skipped = @ + 1]

\* one turn of the async for of handle_websocket_messages whose json.loads
\* raises JSONDecodeError: logged, nothing is sent
AgentSkipsUndecodable(a) ==
    LET h == proc[a].ws
    IN /\ proc[a].pc = "connected"
       /\ sock[h].up
       /\ toAgent[h] # <<>>
       /\ ~Decodable(Head(toAgent[h]))
       /\ toAgent' = [toAgent EXCEPT ![h] = Tail(@)]
       /\ proc' = [proc EXCEPT ![a] = AfterUndecodable(@)]
       /\ UNCHANGED <<hubVars, sock, toHub, tasks, nextId, nextHandle,
                      dashVars, now, health_checks>>
       /\ ret' = NoRet

(* -------------------------------- Next -------------------------------- *)
\* the agent process and its link
AgentNext ==
    \/ \E a \in AgentIds : AgentRegistered(a)
    \/ \E a \in AgentIds : AgentRegistrationFailed(a)
    \/ \E a \in AgentIds : AgentRestarted(a)
    \/ \E a \in AgentIds : AgentConnected(a)
    \/ \E a \in AgentIds : AgentReconnects(a)
    \/ \E h \in Handles : ConnectionLost(h)

\* the frames the agent sends and the hub reads
FrameNext ==
    \/ \E a \in AgentIds, wr \in BOOLEAN : AgentEmits(a, "heartbeat", wr)
    \/ \E a \in AgentIds : AgentEmits(a, "robot_status", FALSE)
    \/ \E a \in AgentIds, wr \in BOOLEAN : AgentHttpHeartbeat(a, wr)
    \/ \E a \in AgentIds, result \in {"success", "error"} :
          AgentHandlesCommand(a, result)
    \/ \E h \in Handles : HubReceive(h)

\* the REST routes that dispatch, and the coroutines they start
DispatchNext ==
    \/ \E r \in AgentIds : SendRobotCommandRejected(r)
    \/ \E r \in AgentIds, action \in CommandActions :
          SendRobotCommand(r, action)
    \/ \E task \in tasks : SendToAgentWritten(task)
    \/ \E task \in tasks : SendToAgentRaised(task)

\* the public methods of CommandService that no route or reader calls
ServiceNext ==
    \/ \E cid \in CommandIds, resp \in Responses :
          HandleCommandResponse(cid, resp)
    \/ \E cid \in CommandIds : CancelCommand(cid)

\* the hub as it is wired in backend/app/main.py, with the agent
Next ==
    \/ AgentNext
    \/ FrameNext
    \/ DispatchNext
    \/ \E h \in Handles : HubReaderDisconnect(h)
    \/ \E h \in Handles : HubReaderError(h)
    \/ \E r \in AgentIds : GetRobot(r)
    \/ GetAllAgents
    \/ SystemStatus
    \/ \E a \in AgentIds : AdminRemoveAgent(a)
    \/ Tick

Spec == Init /\ [][Next]_vars

\* the command service with every public method called, over the transport
ServiceNextAll ==
    \/ AgentNext
    \/ DispatchNext
    \/ ServiceNext
    \/ \E h \in Handles : HubReaderDisconnect(h)

ServiceSpec == Init /\ [][ServiceNextAll]_vars

\* the command endpoints called with the hub's own verbs, the agent, its
\* telemetry, the hub's reader and the administrator; no clock
ControlNext ==
    \/ \E a \in AgentIds : AgentRegistered(a)
    \/ \E a \in AgentIds : AgentConnected(a)
    \/ \E h \in Handles : ConnectionLost(h)
    \/ \E a \in AgentIds : AgentEmits(a, "heartbeat", FALSE)
    \/ \E a \in AgentIds : AgentEmits(a, "robot_status", FALSE)
    \/ \E a \in AgentIds, result \in {"success", "error"} :
          AgentHandlesCommand(a, result)
    \/ \E h \in Handles : HubReceive(h)
    \/ \E h \in Handles : HubReaderDisconnect(h)
    \/ \E a \in AgentIds : AdminRemoveAgent(a)
    \/ \E r \in AgentIds : SendRobotCommandRejected(r)
    \/ \E r \in AgentIds, action \in HubVerbs : SendRobotCommand(r, action)
    \/ \E cmd \in ExhibitionActions : ExhibitionCommandSkips(cmd)
    \/ \E cmd \in ExhibitionActions : ExhibitionCommandDispatches(cmd)
    \/ \E task \in tasks : SendToAgentWritten(task)
    \/ \E task \in tasks : SendToAgentRaised(task)

ControlSpec == Init /\ [][ControlNext]_vars

\* dispatches that run concurrently, to a connected robot and to a robot
\* whose device only registered
IdNext ==
    \/ \E a \in AgentIds : AgentRegistered(a)
    \/ \E a \in AgentIds : AgentConnected(a)
    \/ \E a \in RegistrantIds \ AgentIds, info \in AgentInfos :
          RegisterAgent(a, info)
    \/ \E h \in Handles : ConnectionLost(h)
    \/ \E r \in RegistrantIds, action \in CommandActions :
          Dispatch(r, action, MaxCommands, MaxConcurrent)
    \/ \E task \in tasks : SendToAgentWritten(task)
    \/ \E task \in tasks : SendToAgentRaised(task)

IdSpec == Init /\ [][IdNext]_vars

\* the health service behind the heartbeat route and its two reads, over
\* the clock
HealthNext ==
    \/ \E a \in AgentIds : AgentRegistered(a)
    \/ \E a \in AgentIds : AdminRemoveAgent(a)
    \/ \E a \in AgentIds, data \in HeartbeatBodies : HeartbeatPosted(a, data)
    \/ \E r \in AgentIds : GetRobotHealth(r)
    \/ GetCriticalAlerts
    \/ TickUpTo(MaxHealthTime)

HealthSpec == Init /\ [][HealthNext]_vars

\* the actions the agent's command handler has a case for
RecognizedActions ==
    {"start_workspace", "stop_workspace", "restart_create3",
     "reboot_create3", "status", "get_logs", "reboot", "update", "logs"}

\* the dispatch route called with each action the agent recognizes, the
\* agent that handles the envelopes, the hub's reader and the link
RoutingNext ==
    \/ \E a \in AgentIds : AgentRegistered(a)
    \/ \E a \in AgentIds : AgentConnected(a)
    \/ \E r \in AgentIds, action \in RecognizedActions :
          SendRobotCommand(r, action)
    \/ \E task \in tasks : SendToAgentWritten(task)
    \/ \E task \in tasks : SendToAgentRaised(task)
    \/ \E a \in AgentIds, result \in {"success", "error"} :
          AgentHandlesCommand(a, result)
    \/ \E h \in Handles : HubReceive(h)
    \/ \E h \in Handles : ConnectionLost(h)
    \/ \E h \in Handles : HubReaderDisconnect(h)

RoutingSpec == Init /\ [][RoutingNext]_vars

\* the agent, the hub's reader and the dispatch route: no administrator and
\* no clock, so an agent leaves the registry only when a channel closes
LinkNext ==
    \/ AgentNext
    \/ FrameNext
    \/ DispatchNext
    \/ \E h \in Handles : HubReaderDisconnect(h)
    \/ \E h \in Handles : HubReaderError(h)

LinkSpec == Init /\ [][LinkNext]_vars

\* the registries under registration by any device, removal, heartbeats,
\* dispatch and disconnects; no clock
RegistryNext ==
    \/ AgentNext
    \/ DispatchNext
    \/ \E a \in RegistrantIds, info \in AgentInfos : RegisterAgent(a, info)
    \/ \E a \in RegistrantIds : AdminRemoveAgent(a)
    \/ \E a \in AgentIds, wr \in BOOLEAN : AgentHttpHeartbeat(a, wr)
    \/ \E h \in Handles : HubReaderDisconnect(h)
    \/ \E r \in RegistrantIds : GetRobot(r)

RegistrySpec == Init /\ [][RegistryNext]_vars

\* telemetry alone: the agent's heartbeats and status frames, stamped with
\* the time they were built, on the channel and over HTTP
TelemetryNext ==
    \/ AgentNext
    \/ \E a \in AgentIds, wr \in BOOLEAN :
          AgentEmitsAt(a, "heartbeat", wr, now)
    \/ \E a \in AgentIds, wr \in BOOLEAN :
          AgentEmitsAt(a, "robot_status", wr, now)
    \/ \E a \in AgentIds, wr \in BOOLEAN : AgentHttpHeartbeatAt(a, wr, now)
    \/ \E h \in Handles : HubReceive(h)
    \/ \E h \in Handles : HubReaderDisconnect(h)
    \/ Tick

TelemetrySpec == Init /\ [][TelemetryNext]_vars

\* the steps of the agent process itself
AgentStep(a) ==
    \/ AgentRegistered(a)
    \/ AgentRegistrationFailed(a)
    \/ AttemptFails(a)
    \/ AgentConnected(a)
    \/ InboundLoopEnds(a)
    \/ LoopAgain(a)
    \/ LoopTop(a)
    \/ LoopExits(a)
    \/ AgentSkipsUndecodable(a)
    \/ \E result \in {"success", "error"} : AgentHandlesCommand(a, result)

\* the agent process step by step, with its shutdown signal, its link and
\* the hub's dispatches
AgentLoopNext ==
    \/ \E a \in AgentIds : AgentStep(a)
    \/ \E a \in AgentIds : SignalReceived(a)
    \/ \E a \in AgentIds : AgentRestarted(a)
    \/ \E a \in AgentIds : AgentEmits(a, "heartbeat", FALSE)
    \/ \E h \in Handles : ConnectionLost(h)
    \/ \E h \in Handles : UndecodableArrives(h)
    \/ \E h \in Handles : HubReaderDisconnect(h)
    \/ \E h \in Handles : HubReceive(h)
    \/ DispatchNext

AgentLoopSpec == Init /\ [][AgentLoopNext]_vars

\* the same where the event loop goes on running the agent's coroutines
AgentLoopFairSpec ==
    AgentLoopSpec /\ \A a \in AgentIds : WF_vars(AgentStep(a))

\* the dashboards, the broadcasts to them and the agent's telemetry
DashboardNext ==
    \/ \E a \in AgentIds : AgentRegistered(a)
    \/ \E a \in AgentIds : AgentConnected(a)
    \/ \E a \in AgentIds : AgentEmits(a, "heartbeat", FALSE)
    \/ \E a \in AgentIds : AgentEmits(a, "robot_status", FALSE)
    \/ \E a \in AgentIds : AgentHttpHeartbeat(a, FALSE)
    \/ \E h \in Handles : HubReceive(h)
    \/ \E d \in DashHandles : DashboardConnects(d)
    \/ \E d \in DashHandles : DashboardLost(d)
    \/ \E d \in DashHandles : DashboardReaderDisconnect(d)
    \/ \E b \in broadcasts : BroadcastWritten(b)
    \/ \E b \in broadcasts : BroadcastRaised(b)

DashboardSpec == Init /\ [][DashboardNext]_vars

\* one registered robot without a connection, and a long run of dispatches
HistoryNext ==
    \/ \E a \in AgentIds : AgentRegistered(a)
    \/ \E r \in AgentIds :
          SendRobotCommandUpTo(r, "status", max_command_history + 1)

HistorySpec == Init /\ [][HistoryNext]_vars

(* ------------------------------ the claims ---------------------------- *)
Terminal == {"completed", "failed", "cancelled"}
CommandStatuses == {"pending", "sent", "completed", "failed", "cancelled"}

\* the history records, of every robot
Records ==
    UNION {{command_history[r][i] : i \in 1..Len(command_history[r])} :
              r \in DOMAIN command_history}

RecordOf(cid) == CHOOSE c \in Records : c.command_id = cid

\* the hub's reader takes the frame at the head of handle h in this step
Consumed(h) ==
    /\ sock[h].reader = "reading"
    /\ sock[h].up
    /\ sock'[h].up
    /\ toHub[h] # <<>>
    /\ toHub'[h] = Tail(toHub[h])

\* C1: every command that was written to a connected agent and answered by
\* it is resolved on the hub: once the hub has taken the agent's answer off
\* the channel, the command's history record is completed or failed and the
\* command has left the pending index.
C1_AnsweredCommandIsResolved ==
    [][\A h \in Handles :
          (Consumed(h) /\ Head(toHub[h]).in_reply_to # 0)
          => LET cid == Head(toHub[h]).in_reply_to
             IN /\ cid \notin DOMAIN pending_commands'
                /\ \E r \in DOMAIN command_history' :
                      \E i \in 1..Len(command_history'[r]) :
                         /\ command_history'[r][i].command_id = cid
                         /\ command_history'[r][i].status
                               \in {"completed", "failed"}]_vars

\* C2: hub state is reconstructed on reconnect: whenever the hub accepts a
\* heartbeat from an agent's channel, also one opened by the connection loop
\* after an earlier channel closed, it holds an Agent record for that id and
\* the paired robot is not offline (online, or the status a dispatch set).
C2_ReconnectRestoresAgent ==
    [][\A h \in Handles :
          (Consumed(h) /\ Head(toHub[h]).type = "heartbeat")
          => /\ sock[h].agent \in DOMAIN agents'
             /\ sock[h].agent \in DOMAIN robots'
             /\ robots'[sock[h].agent].status # "offline"]_vars

\* C3: a read of the robot of a registered agent whose last-seen time is
\* older than the liveness timeout yields, and leaves stored, status offline.
C3_StaleAgentReadsOffline ==
    (/\ ret.op = "get_robot"
     /\ ret.ok
     /\ ret.id \in DOMAIN agents
     /\ ~IsLive(agents, ret.id, now))
    => (ret.status = "offline" /\ robots[ret.id].status = "offline")

\* C4: every record of the pending index is pending or sent, and every
\* command of the index has its record in the robot's history.
C4_PendingIndexHoldsOnlyOpenCommands ==
    \A cid \in DOMAIN pending_commands :
       /\ pending_commands[cid].status \in {"pending", "sent"}
       /\ \E c \in Records : c.command_id = cid /\ c.status \notin Terminal

\* C5: terminal command states are absorbing: a history record that is
\* completed, failed or cancelled is the same record after every step.
C5_TerminalIsAbsorbing ==
    [][\A r \in DOMAIN command_history :
          \A i \in 1..Len(command_history[r]) :
             command_history[r][i].status \in Terminal
             => command_history'[r][i] = command_history[r][i]]_vars

\* C6: the status of every command record, in history and in the pending
\* index, is one of pending, sent, completed, failed, cancelled, whatever
\* response payloads were resolved.
C6_StatusInVocabulary ==
    /\ \A c \in Records : c.status \in CommandStatuses
    /\ \A cid \in DOMAIN pending_commands :
          pending_commands[cid].status \in CommandStatuses

\* C7: the command record a successful dispatch returns has status sent,
\* the status of the record stored in history and in the pending index.
C7_ReturnedRecordIsSent ==
    (ret.op = "send_command" /\ ret.ok)
    => /\ ret.status = "sent"
       /\ RecordOf(ret.command_id).status = ret.status
       /\ pending_commands[ret.command_id].status = ret.status


\* send_to_agent returned False for command cid in this step: its dispatch
\* ended, at once or in the coroutine that was suspended, and nothing was
\* written
SendFailedStep(cid) ==
    /\ toAgent' = toAgent
    /\ \A u \in tasks' : u.command_data.command_id # cid
    /\ \/ \E t \in tasks : t.command_data.command_id = cid
       \/ nextId = cid /\ nextId' = cid + 1

\* C8: when the transport send of a dispatched command fails, the command's
\* history record goes from pending to failed with the delivery error
\* attached, the dispatch reports failure to its caller, and the command is
\* never put on a channel: no envelope of it is in flight, and no agent
\* handles or answers it.
C8_SendFailureFailsCommand ==
    /\ [](\A c \in Records :
            c.error = "WebSocket send failed"
            => /\ \A h \in Handles :
                    /\ \A i \in 1..Len(toAgent[h]) :
                          toAgent[h][i].command_id # c.command_id
                    /\ \A i \in 1..Len(toHub[h]) :
                          toHub[h][i].in_reply_to # c.command_id
               /\ \A a \in AgentIds : c.command_id \notin proc[a].handled)
    /\ [][\A cid \in CommandIds :
            SendFailedStep(cid)
            => /\ cid \in DOMAIN pending_commands
                    => RecordOf(cid).status = "pending"
               /\ RecordOf(cid)'.status = "failed"
               /\ RecordOf(cid)'.error = "WebSocket send failed"
               /\ RecordOf(cid)'.completed_at = now
               /\ ret'.op = "send_command"
               /\ ~ret'.ok
               /\ ret'.command_id = cid]_vars

\* a dispatch has just failed after the only handle of the group, a dead
\* socket the reader had not yet noticed, was pruned by send_to_agent
C8_Witness ==
    /\ ret.op = "send_command"
    /\ ~ret.ok
    /\ ret.command_id # 0
    /\ RecordOf(ret.command_id).status = "failed"
    /\ \E h \in Handles :
          /\ sock[h].agent = ret.id
          /\ sock[h].reader = "reading"
          /\ ~InSeq(active_connections[ret.id], h)

IsStarted(r) ==
    /\ r \in DOMAIN robots
    /\ robots[r].status = "active"
    /\ robots[r].current_action = "person_following"

\* C9 as stated: from the successful dispatch of a start command on, the
\* robot is active / person_following in every state in which no response
\* of the agent has been processed (here: the agent has not even handled
\* the command).
C9_StartedUntilResponse ==
    \A c \in Records :
       (/\ c.action = "start"
        /\ c.status = "sent"
        /\ c.command_id \notin proc[c.robot_id].handled)
       => IsStarted(c.robot_id)

\* the send_text of a start command for robot r succeeds in this step
StartWritten(r) ==
    \E task \in tasks :
       /\ task.command_data.robot_id = r
       /\ task.command_data.action = "start"
       /\ SendToAgentWritten(task)

\* C9 as amended: the step that completes the dispatch of a start command
\* leaves the robot active / person_following while the command is only
\* sent and unanswered; the hub's handling of an agent's answer never
\* changes the robot; and the robot leaves active / person_following only
\* by an accepted heartbeat, the removal of the agent, a new registration
\* or the status update of another dispatch.
C9_IntentDrivenStart ==
    [][\A r \in AgentIds :
          /\ StartWritten(r)
             => /\ IsStarted(r)'
                /\ \E c \in Records' :
                      /\ c.robot_id = r
                      /\ c.action = "start"
                      /\ c.status = "sent"
                      /\ c.command_id \notin proc'[r].handled
          /\ (\E h \in Handles :
                 /\ sock[h].agent = r
                 /\ Consumed(h)
                 /\ Head(toHub[h]).in_reply_to # 0)
             => robots' = robots
          /\ (IsStarted(r) /\ ~IsStarted(r)')
             => \/ \E h \in Handles :
                      HubReceive(h) /\ Head(toHub[h]).type = "heartbeat"
                \/ \E wr \in BOOLEAN : AgentHttpHeartbeat(r, wr)
                \/ \E h \in Handles : HubReaderDisconnect(h)
                \/ AdminRemoveAgent(r)
                \/ AgentRegistered(r)
                \/ \E task \in tasks : SendToAgentWritten(task)]_vars

\* a start command was just dispatched: the robot is active and following,
\* the command is sent and the agent has not handled it
C9_Witness ==
    /\ ret.op = "send_command"
    /\ ret.ok
    /\ RecordOf(ret.command_id).action = "start"
    /\ RecordOf(ret.command_id).status = "sent"
    /\ ret.command_id \notin proc[ret.id].handled
    /\ IsStarted(ret.id)

\* C10: a robot's command history never holds more than
\* max_command_history entries.
C10_HistoryIsBounded ==
    \A r \in DOMAIN command_history :
       Len(command_history[r]) <= max_command_history

\* the records of robot r that are still open
InFlight(r) ==
    {c \in Records : c.robot_id = r /\ c.status \in {"pending", "sent"}}

\* C11: at most one command per robot is in flight: for each robot id at
\* most one command record addressed to it is pending or sent.
C11_AtMostOneInFlight ==
    \A r \in AgentIds : Cardinality(InFlight(r)) <= 1

\* the hub's reader of handle h ends in this step
ReaderEnds(h) == sock[h].reader = "reading" /\ sock'[h].reader = "done"

\* C12: whenever the hub's reader of an agent's channel ends, by a clean
\* disconnect or by an error raised while receiving, decoding or handling a
\* message, the handle is unregistered, the Agent record is destroyed and
\* the paired robot is offline.
C12_ReaderEndRemovesAgent ==
    [][\A h \in Handles :
          ReaderEnds(h)
          => LET a == sock[h].agent
             IN /\ ~InSeq(active_connections'[a], h)
                /\ a \notin DOMAIN agents'
                /\ a \in DOMAIN robots' => robots'[a].status = "offline"]_vars

\* the agent record of id a is deleted in this step (administratively or by
\* the reader's disconnect branch)
AgentRemoved(a) == a \in DOMAIN agents /\ a \notin DOMAIN agents'

\* C13 as stated: removing a registered agent deletes the agent record and
\* leaves the paired robot in the registry with status offline; every other
\* field of the robot record is kept.
C13_RemovalKeepsOtherFields ==
    [][\A a \in RegistrantIds :
          AgentRemoved(a)
          => /\ a \in DOMAIN robots'
             /\ robots'[a] = [robots[a] EXCEPT !.status = "offline"]]_vars

\* C13 as amended: removing a registered agent deletes the agent record and
\* leaves the paired robot in the registry with status offline; its other
\* fields are kept, except last_update, which takes the time of the removal.
C13_RemovalSetsRobotOffline ==
    [][\A a \in RegistrantIds :
          AgentRemoved(a)
          => /\ a \in DOMAIN robots'
             /\ robots'[a] = [robots[a] EXCEPT !.status = "offline",
                                                !.last_update = now]]_vars

\* an agent was removed while its robot was following: the robot is kept,
\* offline, with the action it had
C13_Witness ==
    \E a \in AgentIds :
       /\ a \notin DOMAIN agents
       /\ a \in DOMAIN robots
       /\ robots[a].status = "offline"
       /\ robots[a].current_action = "person_following"

\* C14: registration is an upsert with a fixed read-back: in any hub state,
\* also when the id is registered already and its robot is in another
\* status, registering id with info I succeeds and leaves an agent and a
\* robot under that id; the robot then has the hostname and ip_address of
\* I, status online and current action idle, and a read of a robot answers
\* with the stored record.
C14_RegistrationReadBack ==
    /\ ret.op = "register_agent"
       => /\ ret.ok
          /\ ret.id \in DOMAIN agents
          /\ ret.id \in DOMAIN robots
          /\ agents[ret.id].hostname = ret.data.hostname
          /\ agents[ret.id].ip_address = ret.data.ip_address
          /\ robots[ret.id].hostname = ret.data.hostname
          /\ robots[ret.id].ip_address = ret.data.ip_address
          /\ robots[ret.id].status = "online"
          /\ robots[ret.id].current_action = "idle"
    /\ (ret.op = "get_robot" /\ ret.ok) => ret.data = robots[ret.id]

\* an id whose agent had registered as pi-a, connected and been sent a
\* start command (robot active) has just been registered again as pi-b
C14_Witness ==
    /\ ret.op = "register_agent"
    /\ ret.data.hostname = "pi-b"
    /\ \E c \in Records :
          c.robot_id = ret.id /\ c.action = "start" /\ c.status = "sent"

\* C15: the robot ids are the agent ids registered at some point: every
\* agent of the registry has a robot of the same id, a robot id appears
\* exactly when an agent of that id is registered, and no step (heartbeat,
\* dispatch, disconnect, removal) deletes a robot.
C15_RobotsAreRegisteredAgents ==
    /\ [](DOMAIN agents \subseteq DOMAIN robots)
    /\ [][DOMAIN robots' =
             DOMAIN robots \cup (DOMAIN agents' \ DOMAIN agents)]_vars

\* the robot of a removed agent is still there while another id is
\* registered and the removed agent's old channel has been closed
C15_Witness ==
    \E a, b \in RegistrantIds :
       /\ a # b
       /\ a \notin DOMAIN agents
       /\ a \in DOMAIN robots
       /\ b \in DOMAIN agents
       /\ \E h \in Handles : sock[h].agent = a /\ sock[h].reader = "done"

\* the agents inside the timeout window
LiveAgents == {a \in DOMAIN agents : IsLive(agents, a, now)}

\* C16: agent online/offline is derived from the timeout window at every
\* read: the agent listing reports no agent whose last-seen time is older
\* than the agent timeout as online, and the online totals of the listing
\* and of the system status count only agents inside the window.
C16_StaleAgentNotReportedOnline ==
    /\ ret.op = "get_all_agents"
       => /\ \A a \in DOMAIN ret.data.agents :
                ret.data.agents[a].status = "online" => a \in LiveAgents
          /\ ret.data.online <= Cardinality(LiveAgents)
    /\ ret.op = "system_status"
       => ret.data.online <= Cardinality(LiveAgents)

\* what a telemetry update writes of a robot
Metrics(rec) == <<rec.workspace_running, rec.current_action>>

\* the heartbeat merge applied to the stored robots with each possible
\* update, once and twice
HeartbeatIdempotent ==
    \A a \in DOMAIN robots, wr \in BOOLEAN, ts \in 0..MaxTime :
       LET u == Frame("heartbeat", wr, ts)
           once == HeartbeatRobotUpdate(robots, a, u, now)
       IN  HeartbeatRobotUpdate(once, a, u, now) = once

\* the status merge likewise
StatusIdempotent ==
    \A a \in DOMAIN robots, wr \in BOOLEAN, ts \in 0..MaxTime :
       LET u == Frame("robot_status", wr, ts)
           once == StatusRobotUpdate(robots, a, u, now)
       IN  StatusRobotUpdate(once, a, u, now) = once

\* the hub reads a telemetry frame of handle h built before the update
\* that last wrote the robot's metrics
OlderUpdateArrives(h) ==
    /\ Consumed(h)
    /\ Head(toHub[h]).type \in {"heartbeat", "robot_status"}
    /\ sock[h].agent \in DOMAIN robots
    /\ Head(toHub[h]).timestamp < robots[sock[h].agent].metrics_at

\* C17: telemetry writes are last-timestamp-wins and idempotent: when two
\* updates of one robot are accepted in either order the stored metrics are
\* those of the update with the later timestamp (an update older than the
\* one stored leaves the metrics alone), and applying an update twice
\* leaves the same stored state as applying it once.
C17_LastTimestampWins ==
    /\ [](HeartbeatIdempotent /\ StatusIdempotent)
    /\ [][\A h \in Handles :
             OlderUpdateArrives(h)
             => Metrics(robots'[sock[h].agent]) =
                Metrics(robots[sock[h].agent])]_vars

\* a send_text of send_to_agent raised in this step: the coroutine of task
\* went on, or ended, without a write
WriteFailed(task) ==
    /\ task \in tasks
    /\ task \notin tasks'
    /\ toAgent' = toAgent

\* send_to_agent returned True to the coroutine of task in this step
SendSucceeded(task) ==
    /\ task \in tasks
    /\ ret'.op = "send_command"
    /\ ret'.ok
    /\ ret'.command_id = task.command_data.command_id

\* send_to_agent returned False in this step
SendFailed ==
    /\ ret'.op = "send_command"
    /\ ~ret'.ok
    /\ ret'.command_id # 0

\* the envelopes of command cid on the channel to handle h
Copies(queue, cid) ==
    Cardinality({i \in 1..Len(queue) : queue[i].command_id = cid})

\* C18: a targeted send returns false exactly when no handle of the agent's
\* group accepted the message (an absent or empty group included); every
\* handle whose write failed is pruned from the group by then; on success
\* the message was written to exactly one handle.
C18_SendToAgent ==
    /\ [](\A c \in Records :
            c.error = "WebSocket send failed"
            => \A h \in Handles : Copies(toAgent[h], c.command_id) = 0)
    /\ [][/\ \A task \in tasks :
               WriteFailed(task)
               => LET h == Head(task.connections)
                      r == task.command_data.robot_id
                  IN /\ ~InSeq(active_connections'[r], h)
                     /\ active_connections'[r] =
                           Remove(active_connections[r], h)
                     /\ (Tail(task.connections) = <<>>) <=> SendFailed
          /\ \A task \in tasks :
               SendSucceeded(task)
               => LET cmd == task.command_data
                  IN \E h \in Handles :
                        /\ InSeq(active_connections[cmd.robot_id], h)
                        /\ toAgent'[h] = Append(toAgent[h], Envelope(cmd))
                        /\ Copies(toAgent'[h], cmd.command_id) = 1
                        /\ \A g \in Handles \ {h} :
                              /\ toAgent'[g] = toAgent[g]
                              /\ Copies(toAgent[g], cmd.command_id) = 0
          /\ \A cid \in CommandIds :
               (cid = nextId /\ nextId' # nextId)
               => ((active_connections[RecordOf(cid)'.robot_id] = <<>>)
                      <=> SendFailed)
          /\ SendFailed => toAgent' = toAgent]_vars

\* the first dispatch returned True after its send_to_agent pruned a dead
\* handle the reader had not yet noticed and wrote to the next one
C18_Witness ==
    /\ ret.op = "send_command"
    /\ ret.ok
    /\ ret.command_id = 1
    /\ nextId = 2
    /\ \E h, g \in Handles :
          /\ sock[h].agent = ret.id
          /\ sock[h].reader = "reading"
          /\ ~InSeq(active_connections[ret.id], h)
          /\ InSeq(active_connections[ret.id], g)
          /\ Copies(toAgent[g], 1) = 1

\* the copies of broadcast id that dashboard handle d has received
Received(ds, d, id) ==
    Cardinality({k \in 1..Len(ds[d].received) : ds[d].received[k] = id})

\* the coroutine of broadcast b takes a step
BroadcastSteps(b) ==
    /\ b \in broadcasts
    /\ b \notin broadcasts'

\* the coroutine of broadcast b returns in this step
BroadcastReturns(b) ==
    /\ BroadcastSteps(b)
    /\ \A c \in broadcasts' : c.id # b.id

\* C19: broadcast is best-effort per handle: whatever handles fail, every
\* other handle of the group as it was when the broadcast started receives
\* the message exactly once, each failed handle is removed from the group,
\* the handles that succeeded are not removed by the broadcast, and the
\* caller gets no error: its reader goes on reading.
C19_BroadcastBestEffort ==
    /\ [](\A d \in DashHandles, id \in 1..MaxBroadcasts :
            Received(dash, d, id) <= 1)
    /\ [][\A b \in broadcasts :
            /\ BroadcastSteps(b)
               => LET d == b.connections[b.i]
                  IN /\ \A e \in DashHandles \ {d} :
                           dash'[e].received = dash[e].received
                     /\ \/ /\ dash'[d].received =
                                 Append(dash[d].received, b.id)
                           /\ active_connections' = active_connections
                        \/ /\ dash'[d].received = dash[d].received
                           /\ active_connections'[DashboardGroup] =
                                 Remove(active_connections[DashboardGroup],
                                        d)
                           /\ ~InSeq(active_connections'[DashboardGroup], d)
            /\ BroadcastReturns(b)
               => /\ \A k \in 1..Len(b.connections) :
                        LET d == b.connections[k]
                        IN \/ Received(dash', d, b.id) = 1
                           \/ /\ Received(dash', d, b.id) = 0
                              /\ ~InSeq(active_connections'[DashboardGroup],
                                        d)
                  /\ b.caller # NoHandle
                        => /\ sock'[b.caller].reader = "reading"
                           /\ sock'[b.caller].up = sock[b.caller].up]_vars

\* the first broadcast has returned: of the two handles of the group one,
\* whose socket was dead and whose reader had not noticed, was pruned and
\* received nothing, the other received the message and is still in the
\* group
C19_Witness ==
    /\ nextBroadcast = 2
    /\ broadcasts = {}
    /\ \E d, e \in DashHandles :
          /\ dash[d].reader = "reading"
          /\ ~InSeq(active_connections[DashboardGroup], d)
          /\ Received(dash, d, 1) = 0
          /\ InSeq(active_connections[DashboardGroup], e)
          /\ Received(dash, e, 1) = 1

\* C20: a broadcast to the dashboard group never blocks the caller that
\* triggered it: when the hub has handled an agent's inbound message its
\* reader is ready for that agent's next message, whatever writes to
\* dashboard connections are still to finish.
C20_BroadcastNeverBlocksReader ==
    [][\A h \in Handles :
          Consumed(h) => sock'[h].reader = "reading"]_vars

\* agent a is Connected on a channel that is closed: whichever of its
\* routines uses the socket meets the transport error
OnClosedChannel(a) ==
    /\ proc[a].pc = "connected"
    /\ ~sock[proc[a].ws].up

\* C21: in the agent's Connected state a transport error met by any of the
\* concurrent routines tears down the whole group of routines and returns
\* the connection loop to Disconnected: Connected is left only towards
\* Disconnected, with every background task cancelled and the socket
\* dropped, and it is left whenever the channel is closed.
C21_TransportErrorTearsDown ==
    /\ [][\A a \in AgentIds :
            (proc[a].pc = "connected" /\ proc'[a].pc # "connected")
            => /\ OnClosedChannel(a)
               /\ proc'[a].pc = "disconnected"
               /\ proc'[a].background_tasks = {}
               /\ proc'[a].ws = 0]_vars
    /\ \A a \in AgentIds :
          OnClosedChannel(a)
          ~> (proc[a].pc = "disconnected" /\ proc[a].background_tasks = {})

\* the agent is Disconnected after the channel it was Connected on closed
C21_Witness ==
    \E a \in AgentIds :
       /\ proc[a].pc = "disconnected"
       /\ proc[a].paused = <<>>
       /\ proc[a].background_tasks = {}
       /\ \E h \in Handles : sock[h].agent = a /\ ~sock[h].up

\* C22: structured lifetime of agent routines: the background routines of a
\* connection are cancelled together when it is torn down, so at most one
\* generation of routines is alive, it is that of the current connection,
\* and whatever the agent sends goes out on the current connection while
\* the agent is Connected.
C22_OneGenerationOfRoutines ==
    /\ [](\A a \in AgentIds :
            /\ Cardinality(proc[a].background_tasks) <= 1
            /\ proc[a].background_tasks # {}
               => /\ proc[a].pc = "connected"
                  /\ proc[a].background_tasks = {proc[a].ws})
    /\ [][\A h \in Handles :
            Len(toHub'[h]) > Len(toHub[h])
            => /\ proc[sock[h].agent].ws = h
               /\ proc[sock[h].agent].pc = "connected"
               /\ proc'[sock[h].agent].background_tasks = {h}]_vars

\* the routines of the agent's second connection are alive and send on it;
\* those of the first, which was torn down, are not
C22_Witness ==
    \E a \in AgentIds :
       /\ proc[a].pc = "connected"
       /\ proc[a].ws = 2
       /\ proc[a].background_tasks = {2}
       /\ sock[1].agent = a
       /\ toHub[2] # <<>>
       /\ toHub[2][1].type = "heartbeat"

\* C23: after an external shutdown signal the agent eventually reaches its
\* terminal stopped state, from any state of the connection loop.
C23_ShutdownReachesStopped ==
    \A a \in AgentIds : proc[a].signalled ~> (proc[a].pc = "stopped")

\* C24: after a Connecting phase in which all 5 attempts failed, the outer
\* loop waits exactly the fixed inter-attempt delay (5 s) before it
\* re-enters Connecting.
C24_FailedPhaseWaitsFixedDelay ==
    [][\A a \in AgentIds :
          (/\ proc[a].pc = "looptop"
           /\ proc[a].attempt = max_retries
           /\ proc'[a].pc = "connecting")
          => proc[a].paused = <<ReconnectDelay>>]_vars

\* the process ended without a shutdown signal and after it had registered
EndedOnItsOwn(a) ==
    /\ proc[a].pc = "stopped"
    /\ ~proc[a].signalled
    /\ proc[a].registrations = 1
    /\ proc[a].running

\* C25: while the running flag is set the outer reconnect loop has no retry
\* ceiling: after a channel closure it waits the fixed 5 s delay and
\* re-enters Connecting, and it never terminates on its own: the flag is
\* cleared by a shutdown signal only, and the process stops only after a
\* signal or a failed registration.
C25_LoopNeverEndsOnItsOwn ==
    /\ [](\A a \in AgentIds :
            /\ ~EndedOnItsOwn(a)
            /\ (proc[a].pc # "registering" /\ proc[a].pc # "stopped"
                /\ ~proc[a].running) => proc[a].signalled)
    /\ [][\A a \in AgentIds :
            /\ (proc[a].pc = "disconnected" /\ proc'[a].pc # "disconnected")
               => IF proc[a].running
                  THEN /\ proc'[a].pc = "looptop"
                       /\ proc'[a].paused =
                             Append(proc[a].paused, ReconnectDelay)
                  ELSE proc'[a].pc = "stopped"
            /\ (/\ proc[a].pc = "looptop"
                /\ proc[a].attempt < max_retries
                /\ proc'[a].pc = "connecting")
               => proc[a].paused = <<ReconnectDelay>>
            /\ (proc[a].pc = "looptop" /\ proc'[a].pc # "looptop")
               => proc'[a].pc = IF proc[a].running THEN "connecting"
                                ELSE "stopped"]_vars

\* the agent is in Connecting again after a connection that was closed and
\* a Connecting phase that failed
C25_Witness ==
    \E a \in AgentIds :
       /\ proc[a].pc = "connecting"
       /\ proc[a].running
       /\ proc[a].paused = <<FailedConnectDelay, ReconnectDelay>>
       /\ \E h \in Handles : sock[h].agent = a /\ ~sock[h].up

\* the first n of the waits 5 s, 10 s, 20 s, 40 s
Waits(n) == SubSeq(<<5, 10, 20, 40>>, 1, n)

\* C26: each Connecting phase makes at most 5 connection attempts; the
\* waits between consecutive failed attempts are 5 s, 10 s, 20 s, 40 s; no
\* wait follows the 5th failure, after which the phase has failed and the
\* agent is not in Connecting; the backoff restarts from the base delay in
\* every new Connecting phase.
C26_BoundedBackoff ==
    /\ [](\A a \in AgentIds :
            /\ proc[a].attempt <= max_retries
            /\ proc[a].backoff =
                  Waits(IF proc[a].attempt < max_retries THEN proc[a].attempt
                        ELSE max_retries - 1)
            /\ proc[a].pc = "connecting" => proc[a].attempt < max_retries
            /\ proc[a].attempt = max_retries
               => proc[a].pc \in {"disconnected", "looptop", "stopped"})
    /\ [][\A a \in AgentIds :
            (proc[a].pc # "connecting" /\ proc'[a].pc = "connecting")
            => /\ proc'[a].attempt = 0
               /\ proc'[a].retry_delay = 5
               /\ proc'[a].backoff = <<>>]_vars

\* a Connecting phase has failed after its 5th attempt, and it was not the
\* first phase of the run
C26_Witness ==
    \E a \in AgentIds :
       /\ proc[a].attempt = max_retries
       /\ proc[a].backoff = <<5, 10, 20, 40>>
       /\ proc[a].pc = "disconnected"
       /\ \E h \in Handles : sock[h].agent = a

\* C27: registration is one-shot and fatal on failure: the agent calls the
\* registration once per process run, before any channel is opened, and if
\* it fails the process stops without entering Connecting and without
\* another try.
C27_RegistrationOneShot ==
    /\ [](\A a \in AgentIds :
            /\ proc[a].registrations <= 1
            /\ proc[a].pc = "registering" => proc[a].registrations = 0
            /\ proc[a].pc \notin {"registering", "stopped"}
               => proc[a].registrations = 1 /\ a \in DOMAIN robots)
    /\ [][\A a \in AgentIds :
            /\ (proc[a].pc = "registering" /\ proc'[a].pc # "registering")
               => \/ /\ proc'[a].pc = "connecting"
                     /\ a \in DOMAIN agents'
                     /\ agents'[a].last_seen = now
                  \/ /\ proc'[a].pc = "stopped"
                     /\ agents' = agents
                     /\ sock' = sock
            /\ (proc[a].pc = "stopped" /\ proc'[a].pc # "stopped")
               => proc'[a] = NewProcess(proc[a].handled)]_vars

\* the process has stopped on a failed registration: no channel was ever
\* opened and no signal was received
C27_Witness ==
    \E a \in AgentIds :
       /\ proc[a].pc = "stopped"
       /\ proc[a].registrations = 1
       /\ ~proc[a].running
       /\ ~proc[a].signalled
       /\ nextHandle = 1

\* C28: responses are correlated: the response the agent sends back for a
\* command envelope, whether its handler succeeded or failed, is a
\* command_response message that carries the command_id of that command.
C28_ResponsesCarryCommandId ==
    \A h \in Handles :
       \A i \in 1..Len(toHub[h]) :
          toHub[h][i].in_reply_to # 0
          => /\ toHub[h][i].type = "command_response"
             /\ toHub[h][i].command_id = toHub[h][i].in_reply_to

\* the agent takes the message at the head of its inbound queue
TakesMessage(a) ==
    /\ proc[a].pc = "connected"
    /\ proc[a].ws # 0
    /\ sock[proc[a].ws].up
    /\ sock'[proc[a].ws].up
    /\ toAgent[proc[a].ws] # <<>>
    /\ toAgent'[proc[a].ws] = Tail(toAgent[proc[a].ws])

\* C29: neither an undecodable inbound message nor a command whose handler
\* fails ends the connection generation: the agent stays Connected on the
\* same channel with the same routines, an undecodable message is skipped
\* without a response, and a command is answered (a failing handler with
\* an error response).
C29_ErrorsConfinedToMessage ==
    [][\A a \in AgentIds :
          TakesMessage(a)
          => LET h == proc[a].ws
                 env == Head(toAgent[h])
             IN /\ proc'[a].pc = "connected"
                /\ proc'[a].ws = h
                /\ proc'[a].background_tasks = proc[a].background_tasks
                /\ proc'[a].running = proc[a].running
                /\ IF Decodable(env)
                   THEN \E result \in {"success", "error"} :
                           toHub'[h] = Append(toHub[h], Answer(env, result))
                   ELSE /\ toHub' = toHub
                        /\ proc'[a].skipped = proc[a].skipped + 1]_vars

\* on its first and only connection the agent has skipped an undecodable
\* message, handled two commands and answered with an error
C29_Witness ==
    \E a \in AgentIds :
       /\ proc[a].pc = "connected"
       /\ proc[a].ws = 1
       /\ nextHandle = 2
       /\ sock[1].up
       /\ proc[a].skipped = 1
       /\ proc[a].handled = {1, 2}
       /\ toHub[1] # <<>>
       /\ toHub[1][1].in_reply_to = 2
       /\ toHub[1][1].status = "error"

\* C30: every recognized action, robot-scoped or system-scoped, that the
\* hub dispatches in its envelope to a connected agent is routed to the
\* handler of that action and is not answered with an unknown-type or
\* unknown-action error.
C30_RecognizedActionsAreRouted ==
    [][\A a \in AgentIds :
          (/\ TakesMessage(a)
           /\ Head(toAgent[proc[a].ws]).action \in RecognizedActions
           /\ Len(toHub'[proc[a].ws]) > Len(toHub[proc[a].ws]))
          => LET h == proc[a].ws
                 answer == toHub'[h][Len(toHub'[h])]
             IN /\ Route(Head(toAgent[h])) = Head(toAgent[h]).action
                /\ answer.message \notin UnknownMessages]_vars

\* C31: in every reachable hub state each robot's status is one of online,
\* offline, active, idle, error, maintenance.
C31_RobotStatusInEnum ==
    \A r \in DOMAIN robots :
       robots[r].status
          \in {"online", "offline", "active", "idle", "error", "maintenance"}

\* C32: after a heartbeat carrying exactly battery_level 10 and temperature
\* 75 is processed for a registered agent, the health status stored for the
\* robot is critical or poor (until the reading goes stale).
C32_LowBatteryHotIsCriticalOrPoor ==
    \A r \in DOMAIN health_checks :
       (/\ health_checks[r].battery_level = 10
        /\ health_checks[r].temperature = 75
        /\ health_checks[r].cpu_usage = 0
        /\ health_checks[r].memory_usage = 0
        /\ health_checks[r].status # "stale")
       => health_checks[r].status \in {"critical", "poor"}

\* C33: alerts are derived from the latest reading at query time: a query
\* of the alerts returns a critical_battery alert for a robot exactly when
\* the battery level of its latest reading is below 15, and a
\* high_temperature alert exactly when its temperature is above 70.
C33_AlertsFollowLatestReading ==
    ret.op = "get_critical_alerts"
    => \A r \in AgentIds :
          /\ <<r, "critical_battery">> \in ret.data
             <=> (r \in DOMAIN health_checks
                  /\ health_checks[r].battery_level < 15)
          /\ <<r, "high_temperature">> \in ret.data
             <=> (r \in DOMAIN health_checks
                  /\ health_checks[r].temperature > 70)

\* a query made after the reading of minute 0 was replaced by a later one
\* with battery 15 and temperature 70 returns neither alert
C33_Witness ==
    /\ ret.op = "get_critical_alerts"
    /\ "r1" \in DOMAIN health_checks
    /\ health_checks["r1"].timestamp > 0
    /\ health_checks["r1"].battery_level = 15
    /\ health_checks["r1"].temperature = 70
    /\ ret.data = {}

\* C34: a health reading older than the staleness window (5 minutes) is
\* read back with score 0 and status stale, whatever was computed when it
\* was stored; a reading within the window is read back with its computed
\* score and status.
C34_StaleReadingReadsStale ==
    (ret.op = "get_robot_health" /\ ret.ok /\ ret.id \in DOMAIN health_checks)
    => LET e == health_checks[ret.id]
       IN IF now - e.timestamp > 5
          THEN ret.data.health_score = 0 /\ ret.data.status = "stale"
          ELSE /\ ret.data.health_score = CalculateHealthScore(e)
               /\ ret.data.status =
                     DetermineHealthStatus(CalculateHealthScore(e))

\* a reading that scored above 0 when stored is read back stale
C34_Witness ==
    /\ ret.op = "get_robot_health"
    /\ ret.ok
    /\ ret.id \in DOMAIN health_checks
    /\ ret.data.status = "stale"
    /\ ret.data.health_score = 0
    /\ CalculateHealthScore(health_checks[ret.id]) > 60 * ScoreScale

\* C35: for fixed other inputs the health score is monotonically
\* non-increasing in CPU%, in memory%, and in the distance of the
\* temperature from the 50-70 band: no stored reading scores lower than the
\* same reading with more CPU, more memory or a temperature farther from
\* the band.
C35_ScoreMonotone ==
    \A r \in DOMAIN health_checks :
       LET e == health_checks[r]
           score == CalculateHealthScore(e)
           \* the distance of a temperature from the 50..70 band
           BandDistance(temp) ==
              IF temp < 50 THEN 50 - temp
              ELSE IF temp > 70 THEN temp - 70 ELSE 0
       IN /\ \A cpu \in 0..MaxReading :
                cpu >= e.cpu_usage
                => CalculateHealthScore([e EXCEPT !.cpu_usage = cpu])
                   <= score
          /\ \A memory \in 0..MaxReading :
                memory >= e.memory_usage
                => CalculateHealthScore([e EXCEPT !.memory_usage = memory])
                   <= score
          /\ \A temp \in 0..MaxReading :
                BandDistance(temp) >= BandDistance(e.temperature)
                => CalculateHealthScore([e EXCEPT !.temperature = temp])
                   <= score

\* C36: command ids are unique: under any interleaving of dispatches, to
\* the same or to different robots, there is at most one record per command
\* id across all robots' histories, no two dispatches in progress hold the
\* same id, and the id a dispatch returns is that of exactly one record.
C36_CommandIdsUnique ==
    LET \* the places of the records with command id cid, across all
        \* histories
        RecordsOf(cid) ==
           {<<r, i>> \in (DOMAIN command_history) \X (1..MaxCommands) :
               /\ i <= Len(command_history[r])
               /\ command_history[r][i].command_id = cid}
    IN /\ \A cid \in CommandIds : Cardinality(RecordsOf(cid)) <= 1
       /\ \A t1, t2 \in tasks :
             t1.command_data.command_id = t2.command_data.command_id
             => t1 = t2
       /\ (ret.op = "send_command" /\ ret.command_id # 0)
          => Cardinality(RecordsOf(ret.command_id)) = 1

\* two dispatches are suspended in their transport write at the same time
C36_Witness ==
    /\ Cardinality(tasks) = 2
    /\ \E t1, t2 \in tasks :
          t1.command_data.command_id # t2.command_data.command_id

\* C37: while an agent is registered and has a live connection in its
\* group, the closure of a different, stale connection of the same agent id
\* does not remove the agent record or set its robot to offline.
C37_StaleClosureKeepsAgent ==
    [][\A h \in Handles :
          (/\ sock[h].reader = "reading"
           /\ sock'[h].reader = "done"
           /\ sock[h].agent \in DOMAIN agents
           /\ \E h2 \in Handles :
                 /\ h2 # h
                 /\ InSeq(active_connections[sock[h].agent], h2)
                 /\ sock[h2].up
                 /\ sock[h2].reader # "done")
          => /\ sock[h].agent \in DOMAIN agents'
             /\ robots'[sock[h].agent].status
                   = robots[sock[h].agent].status]_vars

\* C38: once an agent has been removed its robot's status stays offline
\* until the agent registers again, under every interleaving.
C38_RemovedAgentRobotOffline ==
    \A r \in DOMAIN robots :
       r \notin DOMAIN agents => robots[r].status = "offline"

\* C39: a started robot can be stopped: after a start command for robot R
\* was accepted, a following command for R through the command endpoint, or
\* an exhibition command, is not rejected as not-online as long as R's
\* agent stays connected.
C39_StartedRobotAcceptsStop ==
    [][\A r \in AgentIds :
          \* r has been started; its agent is registered and connected
          (/\ r \in DOMAIN robots
           /\ robots[r].status = "active"
           /\ r \in DOMAIN agents
           /\ \E h \in Handles :
                 /\ InSeq(active_connections[r], h)
                 /\ sock[h].up
                 /\ sock[h].reader # "done")
          \* the command endpoint does not answer that r is not online, and
          \* the exhibition command does not pass every robot over
          => /\ ~(/\ ret'.op = "send_command"
                  /\ ~ret'.ok
                  /\ ret'.id = r
                  /\ ret'.error = "not online")
             /\ ~(/\ ret'.op = "exhibition_command"
                  /\ ret'.data.processed = 0)]_vars

\* C40: each robot_status message accepted from an agent results in exactly
\* one robot_update message for each connected dashboard handle: the step
\* that accepts it starts one broadcast to every handle of the dashboard
\* group, not none and not two.
C40_OneUpdatePerStatusMessage ==
    [][\A h \in Handles :
          \* the reader of h accepts a robot_status frame of a known robot
          (/\ sock[h].reader = "reading"
           /\ toHub[h] # <<>>
           /\ Head(toHub[h]).type = "robot_status"
           /\ toHub'[h] = Tail(toHub[h])
           /\ sock[h].agent \in DOMAIN robots)
          => \A d \in DashHandles :
                InSeq(active_connections[DashboardGroup], d)
                \* the robot_update broadcasts started in this step that
                \* write to d
                => Cardinality(
                      {b \in broadcasts' \ broadcasts :
                          InSeq(b.connections, d)}) = 1]_vars

=============================================================================
